---- MODULE Spec2Model ----
(***************************************************************************)
(* Model of the resilience layer of agent_toolbox:                         *)
(*   utils/error_recovery.py  (CircuitBreaker, RetryMechanism,             *)
(*                             FallbackMechanism, ErrorRecovery)           *)
(*   utils/retry_decorator.py (retry)                                      *)
(*   utils/advanced_rate_limiter.py (TokenBucket, LeakyBucket,             *)
(*                             SlidingWindowLimiter, AdaptiveRateLimiter)  *)
(*   utils/rate_limiter.py    (RateLimiter)                                *)
(* Time is an integer clock `now` standing for time.time(); it starts at 1 *)
(* because a wall clock never reads 0.                                     *)
(***************************************************************************)
EXTENDS Integers, Sequences, FiniteSets, TLC

VARIABLES
    now,        \* time.time()
    cb_cfg,     \* CircuitBreaker.config
    cb,         \* CircuitBreaker fields
    cb_op,      \* last operation applied to the breaker
    cb_log,     \* calls made through CircuitBreaker.call since construction/reset
    rt_kind,    \* which retry loop runs: RetryMechanism.execute or the retry decorator
    rt_cfg,     \* RetryConfig / the decorator's arguments
    rt_script,  \* what the wrapped function does on its 1st, 2nd, ... invocation
    rt_pc,      \* position of the retry loop
    rt_attempt, \* loop variable `attempt`
    rt_calls,   \* invocations of the wrapped function so far
    rt_sleeps,  \* time.sleep calls so far
    rt_delay,   \* delay computed for the pending or the last sleep
    rt_slept,   \* total of the delays slept so far
    rt_out,     \* value returned or class of the exception raised
    er_cfg,     \* which mechanisms ErrorRecovery holds, and their configs
    er_pc,      \* position of ErrorRecovery.execute
    er_stats,   \* ErrorRecovery.stats
    er_attempt, \* attempt of the retry loop inside execute
    er_exc,     \* exception caught by execute's except clause
    er_cache,   \* FallbackMechanism._cache entry of the call signature
    er_inv,     \* how the last step invoked the wrapped function
    er_out,     \* outcome of the last completed execute
    fb_cfg,     \* FallbackMechanism.config
    fb_cache,   \* FallbackMechanism._cache: cache key -> cached result
    fb_ok,      \* calls whose result has been cached since the last clear
    fb_n,       \* FallbackMechanism.execute calls so far
    fb_last,    \* the last operation on the FallbackMechanism
    rl_kind,    \* which limiter class the specification runs
    rl_cfg,     \* the limiter's construction arguments
    tb,         \* TokenBucket / RateLimiter fields
    lb,         \* LeakyBucket fields
    sw,         \* SlidingWindowLimiter fields
    rl_log,     \* acquire calls made on the limiter since construction
    tc,         \* fields of a TokenBucket shared by several threads
    tc_lock,    \* owner of TokenBucket._lock
    tc_pc,      \* each thread's position in acquire
    tc_loc,     \* each thread's local variables `tokens` (n) and `now`
    tc_calls,   \* acquire calls begun so far
    tc_granted, \* units granted so far (sum of n over the calls returning True)
    ad_cfg,     \* AdaptiveRateLimiter.base_config
    ad,         \* AdaptiveRateLimiter fields
    ad_limiter, \* AdaptiveRateLimiter.limiter, a TokenBucket
    ad_last,    \* the last call on the AdaptiveRateLimiter
    rg,         \* AdvancedRateLimiter fields: limiters, hierarchical_limits,
                \* global_limiters, backoff_times
    rg_pc,      \* position of acquire_with_backoff
    rg_call,    \* arguments and locals of the running acquire_with_backoff
    rg_n,       \* calls made on the registry so far
    rg_last,    \* the last completed call on the registry
    bl_kind,    \* rate_limiter.py: "rate_limiter" or "sliding_window"
    bl,         \* the fields of the RateLimiter / SlidingWindowRateLimiter
    bl_pc,      \* position of the running acquire: "idle", "loop", "sleep"
    bl_call,    \* arguments and locals of the running acquire
    bl_n,       \* acquire calls made so far
    bl_last,    \* the last acquire that returned
    mc_cfg,     \* advanced_cache.py: which cache, and its CacheConfig
    mc,         \* the cache: the memory backend l1, the files l2, the stats
    mc_hist,    \* history of a bare memory backend: its keys in the order
                \* of their last touch, and their touches since insertion
    mc_n,       \* operations made on the cache and clock ticks so far
    mc_last,    \* the last operation and what it returned
    mt_pc,      \* each thread's position in MultiLevelCache.get
    mt_loc,     \* each thread's locals: key, value and the counter it loaded
    mt_done,    \* get calls each thread has completed
    fc_threads, \* the delayed_write threads write_behind has started
    fc_writes,  \* the calls of writer_func so far, in order
    gs_global,  \* the module globals _global_rate_limiter and _global_cache
    gs_pc,      \* each thread's position in the accessor it runs
    gs_loc,     \* each thread's accessor and the instance it constructed
    gs_ret      \* what the accessor calls returned so far

cbVars == <<cb_cfg, cb, cb_op, cb_log>>

rtVars == <<rt_kind, rt_cfg, rt_script, rt_pc, rt_attempt, rt_calls,
            rt_sleeps, rt_delay, rt_slept, rt_out>>

erVars == <<er_cfg, er_pc, er_stats, er_attempt, er_exc, er_cache, er_inv,
            er_out>>

fbVars == <<fb_cfg, fb_cache, fb_ok, fb_n, fb_last>>

rlVars == <<rl_kind, rl_cfg, tb, lb, sw, rl_log>>

tcVars == <<tc, tc_lock, tc_pc, tc_loc, tc_calls, tc_granted>>

adVars == <<ad_cfg, ad, ad_limiter, ad_last>>

rgVars == <<rg, rg_pc, rg_call, rg_n, rg_last>>

blVars == <<bl_kind, bl, bl_pc, bl_call, bl_n, bl_last>>

mcVars == <<mc_cfg, mc, mc_hist, mc_n, mc_last>>

mtVars == <<mt_pc, mt_loc, mt_done>>

fcVars == <<fc_threads, fc_writes>>

gsVars == <<gs_global, gs_pc, gs_loc, gs_ret>>

extVars == <<rgVars, blVars, mcVars, mtVars, fcVars, gsVars>>

limVars == <<fbVars, rlVars, tcVars, adVars, extVars>>

oldVars == <<cbVars, rtVars, erVars, extVars>>

baseVars == <<cbVars, rtVars, erVars, fbVars, rlVars, tcVars, adVars>>

\* what the registry's operations leave alone
notRg == <<baseVars, blVars, mcVars, mtVars, fcVars, gsVars>>

\* what the blocking acquires leave alone
notBl == <<baseVars, rgVars, mcVars, mtVars, fcVars, gsVars>>

\* what the cache operations leave alone
notMc == <<baseVars, rgVars, blVars, mtVars, fcVars, gsVars>>

\* what the threads inside MultiLevelCache.get leave alone
notMt == <<baseVars, rgVars, blVars, fcVars, gsVars>>

\* what the AdvancedCache patterns leave alone
notFc == <<baseVars, rgVars, blVars, mtVars, gsVars>>

\* what the global accessors leave alone
notGs == <<baseVars, rgVars, blVars, mcVars, mtVars, fcVars>>

vars == <<now, cbVars, rtVars, erVars, limVars>>

-----------------------------------------------------------------------------
(* Bounds *)
MaxTime == 4
MaxCalls == 3
MaxThreshold == 2
MaxTimeout == 2
MaxAttempts == 3
MaxExecs == 2
MaxAcquires == 3
MaxReports == 2

-----------------------------------------------------------------------------
(* Python values *)
None == "None"

\* None in a field that otherwise holds a clock reading
NoTime == -1

\* truth value of an Optional[float]
Truthy(x) == x # NoTime /\ x # 0

Max(a, b) == IF a >= b THEN a ELSE b

\* exception classes a wrapped function raises
Raised == {"ValueError", "TypeError"}

\* what one invocation of the wrapped function does
Outcomes == {"ok"} \cup Raised

\* clock readings that pass while the wrapped function runs
FuncTimes == {0, 1}

\* isinstance(e, exc_type) over the classes used here
IsInstance(e, exc_type) == exc_type = "Exception" \/ e = exc_type

-----------------------------------------------------------------------------
(* CircuitBreaker *)

CBConfigs ==
    [failure_threshold : 1..MaxThreshold,
     recovery_timeout  : 1..MaxTimeout,
     success_threshold : {1, 2},
     monitoring_window : {MaxTimeout + 1, MaxTime + 1},
     expected_exception : {"Exception", "ValueError"}]

CBNew ==
    [state |-> "closed", failure_count |-> 0, success_count |-> 0,
     last_failure_time |-> NoTime, failure_times |-> <<>>]

\* UpdateState with the recovery comparison written > instead of >=
UpdateState_late(b, cfg, t) ==
    LET cutoff_time == t - cfg.monitoring_window
        kept == SelectSeq(b.failure_times, LAMBDA x : x > cutoff_time)
        b1 == [b EXCEPT !.failure_times = kept, !.failure_count = Len(kept)]
    IN  IF b1.state = "open"
        THEN IF Truthy(b1.last_failure_time)
                /\ t - b1.last_failure_time > cfg.recovery_timeout
             THEN [b1 EXCEPT !.state = "half_open", !.success_count = 0]
             ELSE b1
        ELSE IF b1.state = "half_open"
        THEN IF b1.success_count >= cfg.success_threshold
             THEN [b1 EXCEPT !.state = "closed", !.failure_count = 0,
                             !.failure_times = <<>>]
             ELSE b1
        ELSE b1

UpdateState(b, cfg, t) ==
    LET cutoff_time == t - cfg.monitoring_window
        kept == SelectSeq(b.failure_times, LAMBDA x : x > cutoff_time)
        b1 == [b EXCEPT !.failure_times = kept, !.failure_count = Len(kept)]
    IN  IF b1.state = "open"
        THEN IF Truthy(b1.last_failure_time)
                /\ t - b1.last_failure_time >= cfg.recovery_timeout
             THEN [b1 EXCEPT !.state = "half_open", !.success_count = 0]
             ELSE b1
        ELSE IF b1.state = "half_open"
        THEN IF b1.success_count >= cfg.success_threshold
             THEN [b1 EXCEPT !.state = "closed", !.failure_count = 0,
                             !.failure_times = <<>>]
             ELSE b1
        ELSE b1

OnSuccess(b) ==
    IF b.state = "half_open"
    THEN [b EXCEPT !.success_count = @ + 1]
    ELSE IF b.state = "closed"
    THEN [b EXCEPT !.failure_count = Max(0, @ - 1)]
    ELSE b

\* OnFailure with the threshold comparison written > instead of >=
OnFailure_gt(b, cfg, t) ==
    LET b1 == [b EXCEPT !.failure_times = Append(@, t),
                        !.failure_count = @ + 1,
                        !.last_failure_time = t]
    IN  IF b1.state = "closed" /\ b1.failure_count > cfg.failure_threshold
        THEN [b1 EXCEPT !.state = "open"]
        ELSE IF b1.state = "half_open"
        THEN [b1 EXCEPT !.state = "open", !.success_count = 0]
        ELSE b1

\* OnFailure without the HALF_OPEN branch
OnFailure_noHalfOpen(b, cfg, t) ==
    LET b1 == [b EXCEPT !.failure_times = Append(@, t),
                        !.failure_count = @ + 1,
                        !.last_failure_time = t]
    IN  IF b1.state = "closed" /\ b1.failure_count >= cfg.failure_threshold
        THEN [b1 EXCEPT !.state = "open"]
        ELSE b1

OnFailure(b, cfg, t) ==
    LET b1 == [b EXCEPT !.failure_times = Append(@, t),
                        !.failure_count = @ + 1,
                        !.last_failure_time = t]
    IN  IF b1.state = "closed" /\ b1.failure_count >= cfg.failure_threshold
        THEN [b1 EXCEPT !.state = "open"]
        ELSE IF b1.state = "half_open"
        THEN [b1 EXCEPT !.state = "open", !.success_count = 0]
        ELSE b1

\* CBCall that records a failure for every exception
CBCall_anyExc(b, cfg, t0, t1, outcome) ==
    LET b1 == UpdateState(b, cfg, t0)
    IN  IF b1.state = "open"
        THEN [cb |-> b1, res |-> "CircuitBreakerOpenError", invoked |-> FALSE]
        ELSE IF outcome = "ok"
        THEN [cb |-> OnSuccess(b1), res |-> "ok", invoked |-> TRUE]
        ELSE [cb |-> OnFailure(b1, cfg, t1), res |-> outcome, invoked |-> TRUE]

\* CircuitBreaker.call: t0 is the clock read by _update_state, t1 the clock
\* read by _on_failure after the function ran; outcome is what the function
\* does if it is invoked.  res is "ok" or the class of the exception raised.
CBCall(b, cfg, t0, t1, outcome) ==
    LET b1 == UpdateState(b, cfg, t0)
    IN  IF b1.state = "open"
        THEN [cb |-> b1, res |-> "CircuitBreakerOpenError", invoked |-> FALSE]
        ELSE IF outcome = "ok"
        THEN [cb |-> OnSuccess(b1), res |-> "ok", invoked |-> TRUE]
        ELSE IF IsInstance(outcome, cfg.expected_exception)
        THEN [cb |-> OnFailure(b1, cfg, t1), res |-> outcome, invoked |-> TRUE]
        ELSE [cb |-> b1, res |-> outcome, invoked |-> TRUE]

\* the mechanisms a specification does not use
FbUnused ==
    /\ fb_cfg = "-"
    /\ fb_cache = <<>>
    /\ fb_ok = {}
    /\ fb_n = 0
    /\ fb_last = "-"

RlUnused ==
    /\ rl_kind = "-"
    /\ rl_cfg = "-"
    /\ tb = "-"
    /\ lb = "-"
    /\ sw = "-"
    /\ rl_log = <<>>

TcUnused ==
    /\ tc = "-"
    /\ tc_lock = "-"
    /\ tc_pc = <<>>
    /\ tc_loc = <<>>
    /\ tc_calls = 0
    /\ tc_granted = 0

AdUnused ==
    /\ ad_cfg = "-"
    /\ ad = "-"
    /\ ad_limiter = "-"
    /\ ad_last = "-"

RgUnused ==
    /\ rg = "-"
    /\ rg_pc = "-"
    /\ rg_call = "-"
    /\ rg_n = 0
    /\ rg_last = "-"

BlUnused ==
    /\ bl_kind = "-"
    /\ bl = "-"
    /\ bl_pc = "-"
    /\ bl_call = "-"
    /\ bl_n = 0
    /\ bl_last = "-"

McUnused ==
    /\ mc_cfg = "-"
    /\ mc = "-"
    /\ mc_hist = "-"
    /\ mc_n = 0
    /\ mc_last = "-"

MtUnused ==
    /\ mt_pc = "-"
    /\ mt_loc = "-"
    /\ mt_done = "-"

FcUnused ==
    /\ fc_threads = "-"
    /\ fc_writes = "-"

GsUnused ==
    /\ gs_global = "-"
    /\ gs_pc = "-"
    /\ gs_loc = "-"
    /\ gs_ret = "-"

ExtUnused ==
    RgUnused /\ BlUnused /\ McUnused /\ MtUnused /\ FcUnused /\ GsUnused

LimUnused == FbUnused /\ RlUnused /\ TcUnused /\ AdUnused /\ ExtUnused

RtUnused ==
    /\ rt_kind = "-"
    /\ rt_cfg = [max_attempts |-> 1, exceptions |-> {}, stop_on |-> {}]
    /\ rt_script = <<>>
    /\ rt_pc = "-"
    /\ rt_attempt = 0
    /\ rt_calls = 0
    /\ rt_sleeps = 0
    /\ rt_delay = 0
    /\ rt_slept = 0
    /\ rt_out = "-"

ErUnused ==
    /\ er_cfg = [has_retry |-> FALSE,
                 retry |-> [max_attempts |-> 1, exceptions |-> {},
                            stop_on |-> {}],
                 breaker |-> FALSE, has_fallback |-> FALSE,
                 fallback |-> [cache_fallback |-> FALSE,
                               fallback_func |-> FALSE,
                               fallback_value |-> None]]
    /\ er_pc = "-"
    /\ er_stats = [total_calls |-> 0, successful_calls |-> 0,
                   failed_calls |-> 0, retries_used |-> 0,
                   circuit_breaker_opens |-> 0, fallbacks_used |-> 0]
    /\ er_attempt = 0
    /\ er_exc = "-"
    /\ er_cache = None
    /\ er_inv = "-"
    /\ er_out = "-"

InitCB ==
    /\ now = 1
    /\ cb_cfg \in CBConfigs
    /\ cb = CBNew
    /\ cb_op = "init"
    /\ cb_log = <<>>
    /\ RtUnused
    /\ ErUnused
    /\ LimUnused

Tick ==
    /\ now < MaxTime
    /\ now' = now + 1
    /\ UNCHANGED <<cbVars, rtVars, erVars, limVars>>

Call ==
    /\ Len(cb_log) < MaxCalls
    /\ \E outcome \in Outcomes, d \in FuncTimes :
         LET r == CBCall(cb, cb_cfg, now, now + d, outcome)
         IN  /\ now + d <= MaxTime
             /\ now' = IF r.invoked THEN now + d ELSE now
             /\ cb' = r.cb
             /\ cb_log' = Append(cb_log,
                    [t |-> now', res |-> r.res, inv |-> r.invoked,
                     fn |-> IF r.invoked THEN outcome ELSE "-",
                     st |-> UpdateState(cb, cb_cfg, now).state])
    /\ cb_op' = "call"
    /\ UNCHANGED <<cb_cfg, rtVars, erVars, limVars>>

GetState ==
    /\ cb' = UpdateState(cb, cb_cfg, now)
    /\ cb_op' = "get_state"
    /\ UNCHANGED <<now, cb_cfg, cb_log, rtVars, erVars, limVars>>

Reset ==
    /\ cb' = CBNew
    /\ cb_op' = "reset"
    /\ cb_log' = <<>>
    /\ UNCHANGED <<now, cb_cfg, rtVars, erVars, limVars>>

NextCB == Tick \/ Call \/ GetState \/ Reset

SpecCB == InitCB /\ [][NextCB]_vars

Spec == SpecCB

-----------------------------------------------------------------------------
(* RetryMechanism.execute and the retry decorator *)

\* Delays are counted in twentieths of a second, so that the 10% and 25%
\* jitter ranges of the delays used here are whole numbers.
Second == 20

\* RetryConfig.max_delay and RetryConfig.backoff_factor keep their defaults
DefaultMaxDelay == 60 * Second

DefaultBackoffFactor == 2

Strategies == {"fixed", "linear", "exponential", "fibonacci", "jitter"}

\* base_delay / delay: one second (the default) and 100 seconds
BaseDelays == {Second, 100 * Second}

RetryConfigs ==
    [max_attempts : 1..MaxAttempts,
     strategy : Strategies,
     base_delay : BaseDelays,
     max_delay : {DefaultMaxDelay},
     backoff_factor : {DefaultBackoffFactor},
     jitter : BOOLEAN,
     exceptions : {{"Exception"}, {"ValueError"}},
     stop_on : {{}, {"TypeError"}, {"ValueError"}}]

Min(a, b) == IF a <= b THEN a ELSE b

RECURSIVE Pow(_, _)
Pow(b, n) == IF n = 0 THEN 1 ELSE b * Pow(b, n - 1)

\* random.uniform(lo, hi): the two ends and the middle of the range
Uniform(lo, hi) == {lo, (lo + hi) \div 2, hi}

\* the value of b after k rounds of `a, b = b, a + b` from a, b
RECURSIVE FibLoop(_, _, _)
FibLoop(a, b, k) == IF k = 0 THEN b ELSE FibLoop(b, a + b, k - 1)

\* RetryMechanism._fibonacci_delay
FibonacciDelay(cfg, attempt) ==
    IF attempt = 0 THEN cfg.base_delay
    ELSE IF attempt = 1 THEN cfg.base_delay
    ELSE cfg.base_delay * FibLoop(1, 1, attempt - 1)

\* the delay before the strategy-independent jitter and the cap
StrategyDelay(cfg, attempt) ==
    IF cfg.strategy = "fixed" THEN {cfg.base_delay}
    ELSE IF cfg.strategy = "linear" THEN {cfg.base_delay * (attempt + 1)}
    ELSE IF cfg.strategy = "exponential"
    THEN {cfg.base_delay * Pow(cfg.backoff_factor, attempt)}
    ELSE IF cfg.strategy = "fibonacci" THEN {FibonacciDelay(cfg, attempt)}
    ELSE LET base_delay == cfg.base_delay * Pow(cfg.backoff_factor, attempt)
         IN  {base_delay + j : j \in Uniform(0, base_delay \div 10)}

\* `if self.config.jitter and strategy != JITTER: delay += uniform(...)`
JitteredDelay(cfg, attempt) ==
    IF cfg.jitter /\ cfg.strategy # "jitter"
    THEN UNION {{delay + j : j \in Uniform(-(delay \div 10), delay \div 10)} :
                  delay \in StrategyDelay(cfg, attempt)}
    ELSE StrategyDelay(cfg, attempt)

\* _calculate_delay returning the jittered delay without the max_delay cap
CalculateDelay_noCap(cfg, attempt) == JitteredDelay(cfg, attempt)

\* RetryMechanism._calculate_delay: the delays it can return for `attempt`
CalculateDelay(cfg, attempt) ==
    {Min(delay, cfg.max_delay) : delay \in JitteredDelay(cfg, attempt)}

\* the delay the retry decorator computes: delay * backoff ** attempt with
\* an optional jitter of 25% either way, and no cap
DecoratorDelay(cfg, attempt) ==
    LET current_delay == cfg.base_delay * Pow(cfg.backoff_factor, attempt)
    IN  IF cfg.jitter
        THEN {current_delay + j :
                j \in Uniform(-(current_delay \div 4), current_delay \div 4)}
        ELSE {current_delay}

\* any(isinstance(e, exc_type) for exc_type in types)
AnyInstance(e, types) == \E exc_type \in types : IsInstance(e, exc_type)

\* the except clause of RetryMechanism.execute with the loop giving up one
\* attempt early
MechanismOnException_early(cfg, attempt, e) ==
    IF AnyInstance(e, cfg.stop_on) THEN "raised"
    ELSE IF ~AnyInstance(e, cfg.exceptions) THEN "raised"
    ELSE IF attempt < cfg.max_attempts - 2 THEN "sleep"
    ELSE "raised"

\* the except clause of RetryMechanism.execute without the stop_on check
MechanismOnException_noStop(cfg, attempt, e) ==
    IF ~AnyInstance(e, cfg.exceptions) THEN "raised"
    ELSE IF attempt < cfg.max_attempts - 1 THEN "sleep"
    ELSE "raised"

\* the except clause of RetryMechanism.execute returning normally once the
\* attempts are used up instead of raising last_exception
MechanismOnException_swallow(cfg, attempt, e) ==
    IF AnyInstance(e, cfg.stop_on) THEN "raised"
    ELSE IF ~AnyInstance(e, cfg.exceptions) THEN "raised"
    ELSE IF attempt < cfg.max_attempts - 1 THEN "sleep"
    ELSE "returned"

\* The except clause of RetryMechanism.execute for exception e raised in
\* loop iteration `attempt`: "raised" when the exception leaves execute
\* (raise e, or raise last_exception after the last iteration), "sleep" when
\* the loop sleeps and goes on.
MechanismOnException(cfg, attempt, e) ==
    IF AnyInstance(e, cfg.stop_on) THEN "raised"
    ELSE IF ~AnyInstance(e, cfg.exceptions) THEN "raised"
    ELSE IF attempt < cfg.max_attempts - 1 THEN "sleep"
    ELSE "raised"

\* The same for the wrapper of the retry decorator: `except exceptions`
\* catches only the listed classes, the last attempt breaks out of the loop
\* and raises last_exception.
DecoratorOnException(cfg, attempt, e) ==
    IF ~AnyInstance(e, cfg.exceptions) THEN "raised"
    ELSE IF attempt = cfg.max_attempts - 1 THEN "raised"
    ELSE "sleep"

InitRetry ==
    /\ now = 1
    /\ rt_kind \in {"mechanism", "decorator"}
    /\ rt_cfg \in RetryConfigs
    /\ rt_kind = "decorator" => rt_cfg.stop_on = {}
    /\ rt_script \in [1..rt_cfg.max_attempts -> Outcomes]
    /\ rt_pc = "loop"
    /\ rt_attempt = 0
    /\ rt_calls = 0
    /\ rt_sleeps = 0
    /\ rt_delay = 0
    /\ rt_slept = 0
    /\ rt_out = "-"
    /\ cb_cfg = CHOOSE c \in CBConfigs : TRUE
    /\ cb = CBNew
    /\ cb_op = "init"
    /\ cb_log = <<>>
    /\ ErUnused
    /\ LimUnused

\* one iteration of the loop up to the sleep: the function is invoked and
\* returns, or raises and the except clause runs
RetryAttempt(kind) ==
    /\ rt_kind = kind
    /\ rt_pc = "loop"
    /\ LET outcome == rt_script[rt_calls + 1]
           next == IF outcome = "ok" THEN "returned"
                   ELSE IF kind = "mechanism"
                   THEN MechanismOnException(rt_cfg, rt_attempt, outcome)
                   ELSE DecoratorOnException(rt_cfg, rt_attempt, outcome)
           delays == IF kind = "mechanism"
                     THEN CalculateDelay(rt_cfg, rt_attempt)
                     ELSE DecoratorDelay(rt_cfg, rt_attempt)
       IN  /\ rt_calls' = rt_calls + 1
           /\ rt_pc' = next
           /\ rt_out' = IF next = "sleep" THEN rt_out ELSE outcome
           /\ IF next = "sleep"
              THEN rt_delay' \in delays
              ELSE rt_delay' = rt_delay
    /\ UNCHANGED <<now, rt_kind, rt_cfg, rt_script, rt_attempt, rt_sleeps,
                   rt_slept,
                   cbVars, erVars, limVars>>

MechanismAttempt == RetryAttempt("mechanism")

DecoratorAttempt == RetryAttempt("decorator")

\* time.sleep(delay), then the next iteration
RetrySleep ==
    /\ rt_pc = "sleep"
    /\ rt_sleeps' = rt_sleeps + 1
    /\ rt_slept' = rt_slept + rt_delay
    /\ rt_attempt' = rt_attempt + 1
    /\ rt_pc' = "loop"
    /\ UNCHANGED <<now, rt_kind, rt_cfg, rt_script, rt_calls, rt_delay, rt_out,
                   cbVars, erVars, limVars>>

NextRetry == MechanismAttempt \/ DecoratorAttempt \/ RetrySleep

SpecRetry == InitRetry /\ [][NextRetry]_vars

-----------------------------------------------------------------------------
(* FallbackMechanism.execute and ErrorRecovery *)

\* placeholders of the configs of mechanisms that are not configured
NoRetry == [max_attempts |-> 1, exceptions |-> {"Exception"}, stop_on |-> {}]

NoFallback ==
    [cache_fallback |-> FALSE, fallback_func |-> FALSE, fallback_value |-> None]

\* retry_config / circuit_config / fallback_config given to ErrorRecovery;
\* has_retry, breaker, has_fallback tell which of them are not None.
\* fallback_func is TRUE when a fallback function is configured;
\* fallback_value is None or the configured value.
ERConfigs ==
    {c \in [has_retry : BOOLEAN,
            retry : [max_attempts : {1, 2},
                     exceptions : {{"Exception"}, {"ValueError"}},
                     stop_on : {{}}],
            breaker : BOOLEAN,
            has_fallback : BOOLEAN,
            fallback : [cache_fallback : BOOLEAN,
                        fallback_func : BOOLEAN,
                        fallback_value : {None, "default"}]] :
        /\ ~c.has_retry => c.retry = NoRetry
        /\ ~c.has_fallback => c.fallback = NoFallback}

StatsNew ==
    [total_calls |-> 0, successful_calls |-> 0, failed_calls |-> 0,
     retries_used |-> 0, circuit_breaker_opens |-> 0, fallbacks_used |-> 0]

\* FallbackMechanism.execute(func): outcome is what func does when the
\* mechanism invokes it, fb_outcome what fallback_func does if called, cache
\* the cached result of the call signature (None when absent).  res is the
\* value returned or the class of the exception re-raised.
FallbackExecute(fcfg, cache, outcome, fb_outcome) ==
    IF outcome = "ok"
    THEN [res |-> "ok",
          cache |-> IF fcfg.cache_fallback THEN "ok" ELSE cache]
    ELSE IF fcfg.cache_fallback /\ cache # None
    THEN [res |-> cache, cache |-> cache]
    ELSE IF fcfg.fallback_func /\ fb_outcome = "ok"
    THEN [res |-> "fallback_result", cache |-> cache]
    ELSE IF fcfg.fallback_value # None
    THEN [res |-> fcfg.fallback_value, cache |-> cache]
    ELSE [res |-> outcome, cache |-> cache]

InitER ==
    /\ now = 1
    /\ er_cfg \in ERConfigs
    /\ cb_cfg \in {c \in CBConfigs : /\ c.failure_threshold \in {1, 2}
                                     /\ c.recovery_timeout = 2
                                     /\ c.success_threshold = 1
                                     /\ c.monitoring_window = MaxTime + 1
                                     /\ c.expected_exception = "Exception"}
    /\ cb = CBNew
    /\ cb_op = "init"
    /\ cb_log = <<>>
    /\ er_pc = "idle"
    /\ er_stats = StatsNew
    /\ er_attempt = 0
    /\ er_exc = "-"
    /\ er_cache = None
    /\ er_inv = "-"
    /\ er_out = "-"
    /\ RtUnused
    /\ LimUnused

\* the clock advances between two execute calls; inside execute it advances
\* while the function runs and while the retry loop sleeps
TickER ==
    /\ er_pc = "idle"
    /\ now < MaxTime
    /\ now' = now + 1
    /\ UNCHANGED <<cbVars, rtVars, erVars, limVars>>

\* entry of execute: total_calls is counted
ExecBegin ==
    /\ er_pc = "idle"
    /\ er_stats.total_calls < MaxExecs
    /\ er_stats' = [er_stats EXCEPT !.total_calls = @ + 1]
    /\ er_attempt' = 0
    /\ er_pc' = "attempt"
    /\ er_inv' = "-"
    /\ UNCHANGED <<now, cbVars, rtVars, er_cfg, er_exc, er_cache, er_out, limVars>>

\* one call of counting_func / wrapped_func from the try block, followed by
\* what the retry loop and execute's own try/except do with its result
ExecAttempt ==
    /\ er_pc = "attempt"
    /\ \E outcome \in Outcomes, d \in FuncTimes :
         LET r == IF er_cfg.breaker
                  THEN CBCall(cb, cb_cfg, now, now + d, outcome)
                  ELSE [cb |-> cb, res |-> outcome, invoked |-> TRUE]
             next == IF r.res = "ok" THEN "returned"
                     ELSE IF er_cfg.has_retry
                     THEN MechanismOnException(er_cfg.retry, er_attempt, r.res)
                     ELSE "raised"
             s1 == IF er_cfg.has_retry /\ er_attempt + 1 > 1
                   THEN [er_stats EXCEPT !.retries_used = @ + 1]
                   ELSE er_stats
             s2 == IF r.res = "CircuitBreakerOpenError"
                   THEN [s1 EXCEPT !.circuit_breaker_opens = @ + 1]
                   ELSE s1
         IN  /\ now + d <= MaxTime
             /\ now' = IF r.invoked THEN now + d ELSE now
             /\ cb' = r.cb
             /\ er_inv' = IF ~r.invoked THEN "-"
                          ELSE IF er_cfg.breaker THEN "breaker" ELSE "direct"
             /\ er_stats' =
                  IF next = "returned"
                  THEN [s2 EXCEPT !.successful_calls = @ + 1]
                  ELSE IF next = "raised"
                  THEN [s2 EXCEPT !.failed_calls = @ + 1]
                  ELSE s2
             /\ er_pc' = IF next = "sleep" THEN "sleep"
                         ELSE IF next = "raised" /\ er_cfg.has_fallback
                         THEN "fallback"
                         ELSE "idle"
             /\ er_exc' = IF next = "raised" THEN r.res ELSE er_exc
             /\ er_out' = IF next = "sleep" THEN er_out
                          ELSE IF next = "raised" /\ er_cfg.has_fallback
                          THEN er_out
                          ELSE r.res
    /\ UNCHANGED <<cb_cfg, cb_op, cb_log, rtVars, er_cfg, er_attempt,
                   er_cache, limVars>>

\* time.sleep(delay) of the retry loop, then the next attempt
ExecSleep ==
    /\ er_pc = "sleep"
    /\ \E d \in 0..1 :
         /\ now + d <= MaxTime
         /\ now' = now + d
    /\ er_attempt' = er_attempt + 1
    /\ er_pc' = "attempt"
    /\ er_inv' = "-"
    /\ UNCHANGED <<cbVars, rtVars, er_cfg, er_stats, er_exc, er_cache, er_out, limVars>>

\* the except clause of execute after failed_calls was counted:
\* fallback_mechanism.execute(func, ...) invokes func itself
ExecFallback ==
    /\ er_pc = "fallback"
    /\ \E outcome \in Outcomes, fb_outcome \in Outcomes, d \in FuncTimes :
         LET f == FallbackExecute(er_cfg.fallback, er_cache, outcome,
                                  fb_outcome)
         IN  /\ now + d <= MaxTime
             /\ now' = now + d
             /\ er_cache' = f.cache
             /\ er_stats' =
                  IF f.res \in Raised THEN er_stats
                  ELSE [er_stats EXCEPT !.fallbacks_used = @ + 1,
                                        !.successful_calls = @ + 1]
             /\ er_out' = IF f.res \in Raised THEN er_exc ELSE f.res
    /\ er_inv' = "direct"
    /\ er_pc' = "idle"
    /\ UNCHANGED <<cbVars, rtVars, er_cfg, er_attempt, er_exc, limVars>>

ResetStats ==
    /\ er_pc = "idle"
    /\ er_stats' = StatsNew
    /\ er_inv' = "-"
    /\ UNCHANGED <<now, cbVars, rtVars, er_cfg, er_pc, er_attempt, er_exc,
                   er_cache, er_out, limVars>>

ResetCircuitBreaker ==
    /\ er_pc = "idle"
    /\ er_cfg.breaker
    /\ cb' = CBNew
    /\ er_inv' = "-"
    /\ UNCHANGED <<now, cb_cfg, cb_op, cb_log, rtVars, er_cfg, er_pc,
                   er_stats, er_attempt, er_exc, er_cache, er_out, limVars>>

NextER ==
    \/ TickER
    \/ ExecBegin
    \/ ExecAttempt
    \/ ExecSleep
    \/ ExecFallback
    \/ ResetStats
    \/ ResetCircuitBreaker

SpecER == InitER /\ [][NextER]_vars

-----------------------------------------------------------------------------
(* FallbackMechanism on its own, called with several functions *)

\* the breaker when a specification does not use it
CbUnused ==
    /\ cb_cfg = CHOOSE c \in CBConfigs : TRUE
    /\ cb = CBNew
    /\ cb_op = "init"
    /\ cb_log = <<>>

OldUnused == CbUnused /\ RtUnused /\ ErUnused /\ ExtUnused

BaseUnused ==
    /\ CbUnused /\ RtUnused /\ ErUnused
    /\ FbUnused /\ RlUnused /\ TcUnused /\ AdUnused

NotRgUnused ==
    BaseUnused /\ BlUnused /\ McUnused /\ MtUnused /\ FcUnused /\ GsUnused

NotBlUnused ==
    BaseUnused /\ RgUnused /\ McUnused /\ MtUnused /\ FcUnused /\ GsUnused

NotMcUnused ==
    BaseUnused /\ RgUnused /\ BlUnused /\ MtUnused /\ FcUnused /\ GsUnused

NotMtUnused == BaseUnused /\ RgUnused /\ BlUnused /\ FcUnused /\ GsUnused

NotFcUnused == BaseUnused /\ RgUnused /\ BlUnused /\ MtUnused /\ GsUnused

NotGsUnused ==
    BaseUnused /\ RgUnused /\ BlUnused /\ McUnused /\ MtUnused /\ FcUnused

\* callables handed to execute: the bound methods fetch of two different
\* clients, and a function load
Funcs == {"client_a.fetch", "client_b.fetch", "load"}

\* getattr(func, '__name__', str(func))
FuncName(func) ==
    IF func \in {"client_a.fetch", "client_b.fetch"} THEN "fetch" ELSE "load"

\* positional arguments of the calls: (1,) and (2,)
Args == {1, 2}

\* str(args) + str(sorted(kwargs.items())) without keyword arguments
ArgsStr(args) == IF args = 1 THEN "(1,)[]" ELSE "(2,)[]"

\* FallbackMechanism._generate_cache_key: f"{func_name}:{args_hash}", the
\* hash standing for the string it is taken of
GenerateCacheKey(func, args) == <<FuncName(func), ArgsStr(args)>>

CacheKeys == {GenerateCacheKey(func, args) : func \in Funcs, args \in Args}

FallbackConfigs ==
    [cache_fallback : BOOLEAN, fallback_func : BOOLEAN,
     fallback_value : {None, "default"}]

InitFB ==
    /\ now = 1
    /\ fb_cfg \in FallbackConfigs
    /\ fb_cache = [k \in CacheKeys |-> None]
    /\ fb_ok = {}
    /\ fb_n = 0
    /\ fb_last = [op |-> "init"]
    /\ OldUnused
    /\ RlUnused
    /\ TcUnused
    /\ AdUnused

\* FallbackMechanism.execute(func, *args): func does `outcome`, the fallback
\* function (when one is configured and gets called) does `fb_outcome`
FBExecute ==
    /\ fb_n < MaxExecs
    /\ \E func \in Funcs, args \in Args, outcome \in Outcomes,
          fb_outcome \in {"ok", "ValueError"} :
         LET cache_key == GenerateCacheKey(func, args)
             r == FallbackExecute(fb_cfg, fb_cache[cache_key], outcome,
                                  fb_outcome)
         IN  /\ fb_cache' = [fb_cache EXCEPT ![cache_key] = r.cache]
             /\ fb_ok' = IF outcome = "ok" /\ fb_cfg.cache_fallback
                         THEN fb_ok \cup {<<func, args>>}
                         ELSE fb_ok
             /\ fb_last' = [op |-> "execute", func |-> func, args |-> args,
                            outcome |-> outcome, fb_outcome |-> fb_outcome,
                            earlier_ok |-> <<func, args>> \in fb_ok,
                            res |-> r.res]
    /\ fb_n' = fb_n + 1
    /\ UNCHANGED <<now, fb_cfg, oldVars, rlVars, tcVars, adVars>>

\* FallbackMechanism.clear_cache
FBClearCache ==
    /\ fb_last.op = "execute"
    /\ fb_cache' = [k \in CacheKeys |-> None]
    /\ fb_ok' = {}
    /\ fb_last' = [op |-> "clear_cache"]
    /\ UNCHANGED <<now, fb_cfg, fb_n, oldVars, rlVars, tcVars, adVars>>

NextFB == FBExecute \/ FBClearCache

SpecFB == InitFB /\ [][NextFB]_vars

-----------------------------------------------------------------------------
(* The limiters of utils/advanced_rate_limiter.py and the RateLimiter of   *)
(* utils/rate_limiter.py, one limiter per behaviour.                       *)
(* A rate is the fraction <<num, den>> = max_requests / time_window of     *)
(* units per clock tick.  Token counts and levels are fractions too: the   *)
(* fields tokens and level hold den times the Python value, so that a      *)
(* bucket holding 1.5 tokens at rate 1/2 has tokens = 3.                   *)

\* units asked of one acquire
Amounts == {1, 2}

\* TokenBucket.__init__ at clock reading t
TokenBucketNew(max_tokens, refill_rate, t) ==
    [max_tokens |-> max_tokens, refill_rate |-> refill_rate,
     tokens |-> max_tokens * refill_rate[2], last_refill |-> t]

\* the refill of TokenBucket.acquire without the cap at max_tokens
TBRefill_noCap(b, t) ==
    [b EXCEPT !.tokens = b.tokens + (t - b.last_refill) * b.refill_rate[1],
              !.last_refill = t]

\* the lazy refill at the head of TokenBucket.acquire
TBRefill(b, t) ==
    [b EXCEPT !.tokens = Min(b.max_tokens * b.refill_rate[2],
                             b.tokens + (t - b.last_refill) * b.refill_rate[1]),
              !.last_refill = t]

\* TokenBucket.acquire granting whenever any token is left
TBAcquire_anyToken(b, n, t) ==
    LET r == TBRefill(b, t)
    IN  IF r.tokens > 0
        THEN [b |-> [r EXCEPT !.tokens = @ - n * b.refill_rate[2]], ok |-> TRUE]
        ELSE [b |-> r, ok |-> FALSE]

\* TokenBucket.acquire(tokens = n) at clock reading t: the bucket after the
\* call and the value returned
TBAcquire(b, n, t) ==
    LET r == TBRefill(b, t)
    IN  IF r.tokens >= n * b.refill_rate[2]
        THEN [b |-> [r EXCEPT !.tokens = @ - n * b.refill_rate[2]], ok |-> TRUE]
        ELSE [b |-> r, ok |-> FALSE]

\* TokenBucket.wait_time(tokens = n) as the fraction <<num, den>> of ticks:
\* it reads self.tokens as the last acquire left it
TBWaitTime(b, n) ==
    IF b.tokens >= n * b.refill_rate[2] THEN <<0, 1>>
    ELSE <<n * b.refill_rate[2] - b.tokens, b.refill_rate[1]>>

\* RateLimiter.__init__: `burst_capacity or max_calls`, burst_capacity 0
\* standing for None as well
RateLimiterNew(max_calls, time_window, burst_capacity, t) ==
    LET capacity == IF burst_capacity # 0 THEN burst_capacity ELSE max_calls
    IN  [max_tokens |-> capacity, refill_rate |-> <<max_calls, time_window>>,
         tokens |-> capacity * time_window, last_refill |-> t]

\* one pass of the loop of RateLimiter.acquire(tokens = n, blocking = False)
RateLimiterAcquire(b, n, t) ==
    LET elapsed == t - b.last_refill
        r == [b EXCEPT !.tokens = Min(b.max_tokens * b.refill_rate[2],
                                      b.tokens + elapsed * b.refill_rate[1]),
                       !.last_refill = t]
    IN  IF r.tokens >= n * b.refill_rate[2]
        THEN [b |-> [r EXCEPT !.tokens = @ - n * b.refill_rate[2]], ok |-> TRUE]
        ELSE [b |-> r, ok |-> FALSE]

\* LeakyBucket.__init__
LeakyBucketNew(capacity, leak_rate, t) ==
    [capacity |-> capacity, leak_rate |-> leak_rate, level |-> 0,
     last_leak |-> t]

\* LeakyBucket.acquire admitting a request into a bucket that is not yet
\* full, however large the request
LBAcquire_notFull(b, n, t) ==
    LET leaked == (t - b.last_leak) * b.leak_rate[1]
        r == [b EXCEPT !.level = Max(0, b.level - leaked), !.last_leak = t]
    IN  IF r.level < b.capacity * b.leak_rate[2]
        THEN [b |-> [r EXCEPT !.level = @ + n * b.leak_rate[2]], ok |-> TRUE]
        ELSE [b |-> r, ok |-> FALSE]

\* LeakyBucket.acquire(amount = n) at clock reading t
LBAcquire(b, n, t) ==
    LET leaked == (t - b.last_leak) * b.leak_rate[1]
        r == [b EXCEPT !.level = Max(0, b.level - leaked), !.last_leak = t]
    IN  IF r.level + n * b.leak_rate[2] <= b.capacity * b.leak_rate[2]
        THEN [b |-> [r EXCEPT !.level = @ + n * b.leak_rate[2]], ok |-> TRUE]
        ELSE [b |-> r, ok |-> FALSE]

\* LeakyBucket.wait_time(amount = n) as a fraction of ticks
LBWaitTime(b, n) ==
    IF b.level + n * b.leak_rate[2] <= b.capacity * b.leak_rate[2]
    THEN <<0, 1>>
    ELSE <<b.level + n * b.leak_rate[2] - b.capacity * b.leak_rate[2],
           b.leak_rate[1]>>

\* SlidingWindowLimiter.__init__
SlidingWindowNew(max_requests, window_size) ==
    [max_requests |-> max_requests, window_size |-> window_size,
     requests |-> <<>>]

\* `while requests and requests[0] < now - window_size: popleft()`
RECURSIVE RemoveExpired(_, _)
RemoveExpired(requests, bound) ==
    IF requests # <<>> /\ Head(requests) < bound
    THEN RemoveExpired(Tail(requests), bound)
    ELSE requests

\* SlidingWindowLimiter.acquire admitting one request more than max_requests
SWAcquire_oneMore(w, t) ==
    LET requests == RemoveExpired(w.requests, t - w.window_size)
    IN  IF Len(requests) <= w.max_requests
        THEN [w |-> [w EXCEPT !.requests = Append(requests, t)], ok |-> TRUE]
        ELSE [w |-> [w EXCEPT !.requests = requests], ok |-> FALSE]

\* SlidingWindowLimiter.acquire() at clock reading t
SWAcquire(w, t) ==
    LET requests == RemoveExpired(w.requests, t - w.window_size)
    IN  IF Len(requests) < w.max_requests
        THEN [w |-> [w EXCEPT !.requests = Append(requests, t)], ok |-> TRUE]
        ELSE [w |-> [w EXCEPT !.requests = requests], ok |-> FALSE]

\* SlidingWindowLimiter.wait_time() at clock reading t, in ticks
SWWaitTime(w, t) ==
    IF Len(w.requests) < w.max_requests THEN 0
    ELSE (w.requests[1] + w.window_size) - t

LimiterKinds ==
    {"token_bucket", "rate_limiter", "leaky_bucket", "sliding_window"}

\* RateLimitConfig(max_requests, time_window, burst_allowance), or the
\* arguments (max_calls, time_window, burst_capacity) of RateLimiter
LimiterConfigs ==
    [max_requests : {1, 2}, time_window : {1, 2}, burst : {0, 1, 3}]

\* AdvancedRateLimiter.add_limiter builds the limiter from the config;
\* a RateLimiter is built by its caller
InitRL ==
    /\ now = 1
    /\ rl_kind \in LimiterKinds
    /\ rl_cfg \in LimiterConfigs
    /\ rl_kind = "sliding_window" => rl_cfg.burst = 0
    /\ tb = IF rl_kind = "token_bucket"
            THEN TokenBucketNew(rl_cfg.max_requests + rl_cfg.burst,
                                <<rl_cfg.max_requests, rl_cfg.time_window>>,
                                now)
            ELSE IF rl_kind = "rate_limiter"
            THEN RateLimiterNew(rl_cfg.max_requests, rl_cfg.time_window,
                                rl_cfg.burst, now)
            ELSE "-"
    /\ lb = IF rl_kind = "leaky_bucket"
            THEN LeakyBucketNew(rl_cfg.max_requests + rl_cfg.burst,
                                <<rl_cfg.max_requests, rl_cfg.time_window>>,
                                now)
            ELSE "-"
    /\ sw = IF rl_kind = "sliding_window"
            THEN SlidingWindowNew(rl_cfg.max_requests, rl_cfg.time_window)
            ELSE "-"
    /\ rl_log = <<>>
    /\ OldUnused
    /\ FbUnused
    /\ TcUnused
    /\ AdUnused

\* time passes between two calls
RLTick ==
    /\ now < MaxTime
    /\ now' = now + 1
    /\ UNCHANGED <<oldVars, fbVars, rlVars, tcVars, adVars>>

TokenBucketAcquire ==
    /\ rl_kind = "token_bucket"
    /\ Len(rl_log) < MaxAcquires
    /\ \E n \in Amounts :
         LET r == TBAcquire(tb, n, now)
         IN  /\ tb' = r.b
             /\ rl_log' = Append(rl_log, [t |-> now, n |-> n, ok |-> r.ok])
    /\ UNCHANGED <<now, oldVars, fbVars, tcVars, adVars, rl_kind, rl_cfg, lb, sw>>

\* RateLimiter.acquire(n, blocking=False)
NonBlockingAcquire ==
    /\ rl_kind = "rate_limiter"
    /\ Len(rl_log) < MaxAcquires
    /\ \E n \in Amounts :
         LET r == RateLimiterAcquire(tb, n, now)
         IN  /\ tb' = r.b
             /\ rl_log' = Append(rl_log, [t |-> now, n |-> n, ok |-> r.ok])
    /\ UNCHANGED <<now, oldVars, fbVars, tcVars, adVars, rl_kind, rl_cfg, lb, sw>>

LeakyBucketAcquire ==
    /\ rl_kind = "leaky_bucket"
    /\ Len(rl_log) < MaxAcquires
    /\ \E n \in Amounts :
         LET r == LBAcquire(lb, n, now)
         IN  /\ lb' = r.b
             /\ rl_log' = Append(rl_log, [t |-> now, n |-> n, ok |-> r.ok])
    /\ UNCHANGED <<now, oldVars, fbVars, tcVars, adVars, rl_kind, rl_cfg, tb, sw>>

SlidingWindowAcquire ==
    /\ rl_kind = "sliding_window"
    /\ Len(rl_log) < MaxAcquires
    /\ LET r == SWAcquire(sw, now)
       IN  /\ sw' = r.w
           /\ rl_log' = Append(rl_log, [t |-> now, n |-> 1, ok |-> r.ok])
    /\ UNCHANGED <<now, oldVars, fbVars, tcVars, adVars, rl_kind, rl_cfg, tb, lb>>

NextRL ==
    \/ RLTick
    \/ TokenBucketAcquire
    \/ NonBlockingAcquire
    \/ LeakyBucketAcquire
    \/ SlidingWindowAcquire

SpecRL == InitRL /\ [][NextRL]_vars

-----------------------------------------------------------------------------
(* TokenBucket.acquire called by several threads, one statement per step *)

Threads == {"t1", "t2"}

\* threading.RLock handing itself to any thread, held or not
CanLock_always(owner, thread) == TRUE

\* threading.RLock: free, or already held by the asking thread
CanLock(owner, thread) == owner = None \/ owner = thread

InitTC ==
    /\ now = 1
    /\ \E max_tokens \in {1, 2}, refill_rate \in {<<1, 1>>, <<1, 2>>} :
         tc = TokenBucketNew(max_tokens, refill_rate, now)
    /\ tc_lock = None
    /\ tc_pc = [th \in Threads |-> "idle"]
    /\ tc_loc = [th \in Threads |-> [n |-> 0, now |-> 0]]
    /\ tc_calls = 0
    /\ tc_granted = 0
    /\ OldUnused
    /\ FbUnused
    /\ RlUnused
    /\ AdUnused

\* the clock advances whatever the threads are doing
TCTick ==
    /\ now < MaxTime
    /\ now' = now + 1
    /\ UNCHANGED <<oldVars, limVars>>

\* a thread calls acquire(n)
TCCall(th) ==
    /\ tc_pc[th] = "idle"
    /\ tc_calls < MaxAcquires
    /\ \E n \in Amounts : tc_loc' = [tc_loc EXCEPT ![th] = [n |-> n, now |-> 0]]
    /\ tc_pc' = [tc_pc EXCEPT ![th] = "lock"]
    /\ tc_calls' = tc_calls + 1
    /\ UNCHANGED <<now, oldVars, fbVars, rlVars, adVars, tc, tc_lock,
                   tc_granted>>

\* with self._lock:
TCLock(th) ==
    /\ tc_pc[th] = "lock"
    /\ CanLock(tc_lock, th)
    /\ tc_lock' = th
    /\ tc_pc' = [tc_pc EXCEPT ![th] = "now"]
    /\ UNCHANGED <<now, oldVars, fbVars, rlVars, adVars, tc, tc_loc, tc_calls,
                   tc_granted>>

\* now = time.time()
TCReadClock(th) ==
    /\ tc_pc[th] = "now"
    /\ tc_loc' = [tc_loc EXCEPT ![th].now = now]
    /\ tc_pc' = [tc_pc EXCEPT ![th] = "refill"]
    /\ UNCHANGED <<now, oldVars, fbVars, rlVars, adVars, tc, tc_lock,
                   tc_calls, tc_granted>>

\* elapsed, tokens_to_add, self.tokens = min(...), self.last_refill = now
TCRefill(th) ==
    /\ tc_pc[th] = "refill"
    /\ tc' = TBRefill(tc, tc_loc[th].now)
    /\ tc_pc' = [tc_pc EXCEPT ![th] = "check"]
    /\ UNCHANGED <<now, oldVars, fbVars, rlVars, adVars, tc_lock, tc_loc,
                   tc_calls, tc_granted>>

\* if self.tokens >= tokens:
TCCheck(th) ==
    /\ tc_pc[th] = "check"
    /\ tc_pc' = [tc_pc EXCEPT ![th] =
                    IF tc.tokens >= tc_loc[th].n * tc.refill_rate[2]
                    THEN "take" ELSE "unlock"]
    /\ UNCHANGED <<now, oldVars, fbVars, rlVars, adVars, tc, tc_lock, tc_loc,
                   tc_calls, tc_granted>>

\* self.tokens -= tokens; return True
TCTake(th) ==
    /\ tc_pc[th] = "take"
    /\ tc' = [tc EXCEPT !.tokens = @ - tc_loc[th].n * tc.refill_rate[2]]
    /\ tc_granted' = tc_granted + tc_loc[th].n
    /\ tc_pc' = [tc_pc EXCEPT ![th] = "unlock"]
    /\ UNCHANGED <<now, oldVars, fbVars, rlVars, adVars, tc_lock, tc_loc,
                   tc_calls>>

\* the with block is left and acquire returns
TCUnlock(th) ==
    /\ tc_pc[th] = "unlock"
    /\ tc_lock' = None
    /\ tc_pc' = [tc_pc EXCEPT ![th] = "idle"]
    /\ tc_loc' = [tc_loc EXCEPT ![th] = [n |-> 0, now |-> 0]]
    /\ UNCHANGED <<now, oldVars, fbVars, rlVars, adVars, tc, tc_calls,
                   tc_granted>>

NextTC ==
    \/ TCTick
    \/ \E th \in Threads : TCCall(th)
    \/ \E th \in Threads : TCLock(th)
    \/ \E th \in Threads : TCReadClock(th)
    \/ \E th \in Threads : TCRefill(th)
    \/ \E th \in Threads : TCCheck(th)
    \/ \E th \in Threads : TCTake(th)
    \/ \E th \in Threads : TCUnlock(th)

SpecTC == InitTC /\ [][NextTC]_vars

-----------------------------------------------------------------------------
(* AdaptiveRateLimiter.  The clock of this specification ticks once per    *)
(* minute, the time_window of the base config is a whole number of minutes *)

\* AdaptiveRateLimiter.adjustment_interval = 60.0 seconds
AdjustmentInterval == 1

\* RateLimitConfig(max_requests, time_window) with adaptive_threshold at its
\* default 0.8, the fraction 8/10
AdaptiveConfigs ==
    [max_requests : {1, 2, 5}, time_window : {1, 2},
     adaptive_threshold : {<<8, 10>>}]

\* AdaptiveRateLimiter.__init__
AdaptiveNew(cfg, t) ==
    [current_limit |-> cfg.max_requests, success_count |-> 0,
     failure_count |-> 0, last_adjustment |-> t]

\* new_limit of _adjust_limits in tenths: current_limit * 1.2 capped at
\* twice the base, current_limit * 0.8 floored at a tenth of the base, or
\* current_limit
NewLimitTenths(cfg, a) ==
    LET total_requests == a.success_count + a.failure_count
    IN  IF 10 * a.success_count > 9 * total_requests
        THEN Min(a.current_limit * 12, cfg.max_requests * 20)
        ELSE IF a.success_count * cfg.adaptive_threshold[2]
                  < cfg.adaptive_threshold[1] * total_requests
        THEN Max(a.current_limit * 8, cfg.max_requests)
        ELSE a.current_limit * 10

\* AdaptiveRateLimiter._adjust_limits at clock reading t: the limiter
\* fields and the underlying bucket afterwards
AdjustLimits(cfg, a, bucket, t) ==
    IF t - a.last_adjustment < AdjustmentInterval
    THEN [a |-> a, limiter |-> bucket]
    ELSE IF a.success_count + a.failure_count = 0
    THEN [a |-> a, limiter |-> bucket]
    ELSE LET new_limit == NewLimitTenths(cfg, a)
             \* int(new_limit)
             limit == IF new_limit # a.current_limit * 10
                      THEN new_limit \div 10
                      ELSE a.current_limit
         IN  [a |-> [current_limit |-> limit, success_count |-> 0,
                     failure_count |-> 0, last_adjustment |-> t],
              limiter |-> IF new_limit # a.current_limit * 10
                          THEN TokenBucketNew(limit,
                                              <<limit, cfg.time_window>>, t)
                          ELSE bucket]

InitAD ==
    /\ now = 1
    /\ ad_cfg \in AdaptiveConfigs
    /\ ad = AdaptiveNew(ad_cfg, now)
    /\ ad_limiter = TokenBucketNew(ad_cfg.max_requests,
                                   <<ad_cfg.max_requests, ad_cfg.time_window>>,
                                   now)
    /\ ad_last = [op |-> "init"]
    /\ OldUnused
    /\ FbUnused
    /\ RlUnused
    /\ TcUnused

ADTick ==
    /\ now < MaxTime
    /\ now' = now + 1
    /\ UNCHANGED <<oldVars, limVars>>

\* AdaptiveRateLimiter.acquire: _adjust_limits, then limiter.acquire()
AdaptiveAcquire ==
    LET adj == AdjustLimits(ad_cfg, ad, ad_limiter, now)
        r == TBAcquire(adj.limiter, 1, now)
    IN  /\ ad' = adj.a
        /\ ad_limiter' = r.b
        /\ ad_last' = [op |-> "acquire", ok |-> r.ok,
                       adjusted |-> adj.a.last_adjustment = now
                                    /\ ad.last_adjustment # now]
        /\ UNCHANGED <<now, oldVars, fbVars, rlVars, tcVars, ad_cfg>>

ReportSuccess ==
    /\ ad.success_count + ad.failure_count < MaxReports
    /\ ad' = [ad EXCEPT !.success_count = @ + 1]
    /\ ad_last' = [op |-> "report_success"]
    /\ UNCHANGED <<now, oldVars, fbVars, rlVars, tcVars, ad_cfg, ad_limiter>>

ReportFailure ==
    /\ ad.success_count + ad.failure_count < MaxReports
    /\ ad' = [ad EXCEPT !.failure_count = @ + 1]
    /\ ad_last' = [op |-> "report_failure"]
    /\ UNCHANGED <<now, oldVars, fbVars, rlVars, tcVars, ad_cfg, ad_limiter>>

NextAD == ADTick \/ AdaptiveAcquire \/ ReportSuccess \/ ReportFailure

SpecAD == InitAD /\ [][NextAD]_vars

-----------------------------------------------------------------------------
(* AdvancedRateLimiter, the registry.  The clock ticks once per second.    *)
(* The limiter "api" of scope "default", the hierarchical limit of user    *)
(* "u1" on resource "r1" and one limiter the caller has put in the public  *)
(* dict global_limiters are each present or not; all use the default       *)
(* algorithm TOKEN_BUCKET.                                                 *)

\* RateLimitConfig defaults: burst_allowance, backoff_factor (3/2),
\* max_backoff
DefaultBurstAllowance == 0

DefaultLimiterBackoffFactor == <<3, 2>>

DefaultMaxBackoff == 300

\* `self.backoff_times[key] = 1.0`
InitialBackoff == 1

\* calls made on the registry in one run
MaxRegistryCalls == 2

RegistryConfigs ==
    [max_requests : {1, 2}, time_window : {1, 4},
     burst_allowance : {DefaultBurstAllowance},
     backoff_factor : {DefaultLimiterBackoffFactor},
     max_backoff : {DefaultMaxBackoff}]

\* f"{scope}:{name}"
LimiterKey(scope, name) == <<scope, name>>

\* f"{user_id}:{resource}", the name of a lazily created user limiter
UserLimiterName(user_id, resource) == "u1:r1"

\* f"{scope}:{name}:{user_id}:{resource}"
BackoffKey(scope, name, user_id, resource) ==
    <<scope, name, user_id, resource>>

\* the limiter AdvancedRateLimiter.add_limiter builds for a TOKEN_BUCKET
\* config at clock reading t
AddLimiter(config, t) ==
    TokenBucketNew(config.max_requests + config.burst_allowance,
                   <<config.max_requests, config.time_window>>, t)

\* AdvancedRateLimiter._get_config: `return None`
GetConfig(name, scope) == None

\* one acquire() on the limiter stored under key k of the dict d
AcquireIn(d, k, t) ==
    LET r == TBAcquire(d[k], 1, t)
    IN  [d |-> [d EXCEPT ![k] = r.b], ok |-> r.ok]

\* the loop over global_limiters: the first denial returns
RECURSIVE AcquireGlobals(_, _, _)
AcquireGlobals(d, keys, t) ==
    IF keys = {} THEN [d |-> d, ok |-> TRUE]
    ELSE LET k == CHOOSE x \in keys : TRUE
             r == AcquireIn(d, k, t)
         IN  IF ~r.ok THEN r ELSE AcquireGlobals(r.d, keys \ {k}, t)

\* AdvancedRateLimiter.check_limits(name, scope, user_id, resource) at clock
\* reading t: the registry afterwards and the value returned
CheckLimits(r, name, scope, user_id, resource, t) ==
    LET key == LimiterKey(scope, name)
        main == IF key \in DOMAIN r.limiters
                THEN AcquireIn(r.limiters, key, t)
                ELSE [d |-> r.limiters, ok |-> TRUE]
    IN  IF ~main.ok THEN [r |-> [r EXCEPT !.limiters = main.d], ok |-> FALSE]
        ELSE
        LET user_key == LimiterKey("user", UserLimiterName(user_id, resource))
            hier == /\ user_id # None /\ resource # None
                    /\ <<user_id, resource>> \in DOMAIN r.hierarchical_limits
            created == IF hier /\ user_key \notin DOMAIN main.d
                       THEN main.d @@
                            (user_key :> AddLimiter(
                                r.hierarchical_limits[<<user_id, resource>>],
                                t))
                       ELSE main.d
            user == IF hier THEN AcquireIn(created, user_key, t)
                    ELSE [d |-> created, ok |-> TRUE]
        IN  IF ~user.ok
            THEN [r |-> [r EXCEPT !.limiters = user.d], ok |-> FALSE]
            ELSE
            LET glob == AcquireGlobals(r.global_limiters,
                                       DOMAIN r.global_limiters, t)
            IN  [r |-> [r EXCEPT !.limiters = user.d,
                                 !.global_limiters = glob.d],
                 ok |-> glob.ok]

\* the larger of two fractions
FracMax(a, b) == IF a[1] * b[2] >= b[1] * a[2] THEN a ELSE b

\* AdvancedRateLimiter.wait_time(name, scope, user_id, resource)
RegistryWaitTime(r, name, scope, user_id, resource) ==
    LET key == LimiterKey(scope, name)
        user_key == LimiterKey("user", UserLimiterName(user_id, resource))
        w1 == IF key \in DOMAIN r.limiters
              THEN FracMax(<<0, 1>>, TBWaitTime(r.limiters[key], 1))
              ELSE <<0, 1>>
    IN  IF /\ user_id # None /\ resource # None
           /\ <<user_id, resource>> \in DOMAIN r.hierarchical_limits
           /\ user_key \in DOMAIN r.limiters
        THEN FracMax(w1, TBWaitTime(r.limiters[user_key], 1))
        ELSE w1

\* the backoff acquire_with_backoff stores after a denial that is not the
\* last attempt
NextBackoff(backoff_times, key, name, scope) ==
    IF key \notin DOMAIN backoff_times THEN InitialBackoff
    ELSE LET config == GetConfig(name, scope)
         IN  IF config # None
             THEN Min((backoff_times[key] * config.backoff_factor[1])
                         \div config.backoff_factor[2],
                      config.max_backoff)
             ELSE backoff_times[key]

\* the (user_id, resource) arguments of a call
UserArgs == {<<None, None>>, <<"u1", "r1">>, <<"u1", None>>}

InitRG ==
    /\ now = 1
    /\ \E main \in SUBSET {LimiterKey("default", "api")},
          hier \in SUBSET {<<"u1", "r1">>},
          glob \in SUBSET {"g"},
          c1 \in RegistryConfigs, c2 \in RegistryConfigs :
         /\ c1.max_requests = 2 => c1.time_window = 1
         /\ c2.max_requests = 1 /\ c2.time_window = 4
         /\ rg = [limiters |-> [k \in main |-> AddLimiter(c1, now)],
                  hierarchical_limits |-> [k \in hier |-> c2],
                  global_limiters |-> [k \in glob |-> AddLimiter(c2, now)],
                  backoff_times |-> <<>>]
    /\ rg_pc = "idle"
    /\ rg_call = [op |-> "none"]
    /\ rg_n = 0
    /\ rg_last = [op |-> "init"]
    /\ NotRgUnused

RGTick ==
    /\ rg_pc = "idle"
    /\ now < MaxTime
    /\ now' = now + 1
    /\ UNCHANGED <<notRg, rgVars>>

\* a direct call of check_limits("api", "default", user_id, resource)
RGCheckLimits ==
    /\ rg_pc = "idle"
    /\ rg_n < MaxRegistryCalls
    /\ \E ua \in UserArgs :
         LET c == CheckLimits(rg, "api", "default", ua[1], ua[2], now)
         IN  /\ rg' = c.r
             /\ rg_last' = [op |-> "check_limits", user_id |-> ua[1],
                            resource |-> ua[2], ok |-> c.ok]
    /\ rg_n' = rg_n + 1
    /\ UNCHANGED <<now, notRg, rg_pc, rg_call>>

\* a call of a function wrapped by decorator("api", "default", ...,
\* raise_on_limit), or by rate_limit, which leaves raise_on_limit at True
RGDecoratedCall ==
    /\ rg_pc = "idle"
    /\ rg_n < MaxRegistryCalls
    /\ \E ua \in UserArgs, raise_on_limit \in BOOLEAN,
          outcome \in {"ok", "ValueError"} :
         LET c == CheckLimits(rg, "api", "default", ua[1], ua[2], now)
             wait_time == RegistryWaitTime(c.r, "api", "default", ua[1], ua[2])
         IN  /\ rg' = c.r
             /\ rg_last' =
                  [op |-> "decorated", user_id |-> ua[1], resource |-> ua[2],
                   raise_on_limit |-> raise_on_limit, ok |-> c.ok,
                   invoked |-> c.ok,
                   wait_time |-> wait_time,
                   retry_after |-> IF ~c.ok /\ raise_on_limit THEN wait_time
                                   ELSE <<0, 1>>,
                   res |-> IF c.ok THEN outcome
                           ELSE IF raise_on_limit THEN "RateLimitExceeded"
                           ELSE None]
    /\ rg_n' = rg_n + 1
    /\ UNCHANGED <<now, notRg, rg_pc, rg_call>>

\* acquire_with_backoff("api", "default", user_id, resource, max_attempts)
\* is called
RGBackoffBegin ==
    /\ rg_pc = "idle"
    /\ rg_n < MaxRegistryCalls
    /\ \E ua \in UserArgs, max_attempts \in {1, 2, 3} :
         LET key == BackoffKey("default", "api", ua[1], ua[2])
         IN  rg_call' = [op |-> "acquire_with_backoff", user_id |-> ua[1],
                         resource |-> ua[2], max_attempts |-> max_attempts,
                         attempt |-> 0, checks |-> 0, sleeps |-> <<>>,
                         stored |-> IF key \in DOMAIN rg.backoff_times
                                    THEN rg.backoff_times[key] ELSE NoTime]
    /\ rg_pc' = "check"
    /\ rg_n' = rg_n + 1
    /\ UNCHANGED <<now, notRg, rg, rg_last>>

\* one iteration of the loop up to the sleep
RGBackoffCheck ==
    /\ rg_pc = "check"
    /\ LET key == BackoffKey("default", "api", rg_call.user_id,
                              rg_call.resource)
           c == CheckLimits(rg, "api", "default", rg_call.user_id,
                            rg_call.resource, now)
           checked == [rg_call EXCEPT !.checks = @ + 1]
       IN  IF c.ok
           THEN /\ rg' = [c.r EXCEPT !.backoff_times =
                            IF key \in DOMAIN @ THEN [@ EXCEPT ![key] = 0]
                            ELSE @ @@ (key :> 0)]
                /\ rg_pc' = "idle"
                /\ rg_call' = [op |-> "none"]
                /\ rg_last' = [op |-> "acquire_with_backoff", res |-> TRUE,
                               call |-> checked]
           ELSE IF rg_call.attempt < rg_call.max_attempts - 1
           THEN LET b == NextBackoff(c.r.backoff_times, key, "api", "default")
                IN  /\ rg' = [c.r EXCEPT !.backoff_times =
                                 IF key \in DOMAIN @
                                 THEN [@ EXCEPT ![key] = b]
                                 ELSE @ @@ (key :> b)]
                    /\ rg_pc' = "sleep"
                    /\ rg_call' = checked
                    /\ rg_last' = rg_last
           ELSE /\ rg' = c.r
                /\ rg_pc' = "idle"
                /\ rg_call' = [op |-> "none"]
                /\ rg_last' = [op |-> "acquire_with_backoff", res |-> FALSE,
                               call |-> checked]
    /\ UNCHANGED <<now, notRg, rg_n>>

\* time.sleep(self.backoff_times[key]), then the next iteration
RGBackoffSleep ==
    /\ rg_pc = "sleep"
    /\ LET key == BackoffKey("default", "api", rg_call.user_id,
                              rg_call.resource)
           b == rg.backoff_times[key]
       IN  /\ now + b <= MaxTime
           /\ now' = now + b
           /\ rg_call' = [rg_call EXCEPT !.sleeps = Append(@, b),
                                         !.attempt = @ + 1]
    /\ rg_pc' = "check"
    /\ UNCHANGED <<notRg, rg, rg_n, rg_last>>

NextRG ==
    \/ RGTick
    \/ RGCheckLimits
    \/ RGDecoratedCall
    \/ RGBackoffBegin
    \/ RGBackoffCheck
    \/ RGBackoffSleep

SpecRG == InitRG /\ [][NextRG]_vars

-----------------------------------------------------------------------------
(* rate_limiter.py: the blocking acquire of RateLimiter and of            *)
(* SlidingWindowRateLimiter, one thread.  The clock ticks every 0.1 s, the *)
(* longest sleep of the loops; a shorter sleep lasts until the next tick.  *)

\* 0.1 in `min(0.1, ...)`, in ticks
SleepCap == <<1, 1>>

\* 0.01 in `max(0.01, sleep_time)` and `time.sleep(0.01)`, in ticks
SleepFloor == <<1, 10>>

\* the smaller of two fractions
FracMin(a, b) == IF a[1] * b[2] <= b[1] * a[2] THEN a ELSE b

\* the ticks that pass during time.sleep(f)
SleepTicks(f) == IF f[1] <= 0 THEN 0 ELSE (f[1] + f[2] - 1) \div f[2]

\* acquire calls in one run
MaxBlockingCalls == 2

\* the longest time a request the limiter can ever serve has to wait, and
\* the longest timeout
CallSpan == 2

\* (max_calls, time_window, burst_capacity) of the RateLimiters, 0 for None
BlockingConfigs == {<<1, 1, 0>>, <<2, 1, 0>>, <<1, 1, 2>>}

\* timeout arguments: None, 0 and positive ones
Timeouts == {NoTime, 0, 1, 2}

\* SlidingWindowRateLimiter.__init__
SlidingWindowRateLimiterNew(max_calls, time_window) ==
    [max_calls |-> max_calls, time_window |-> time_window, calls |-> <<>>]

\* `while self.calls and current_time - self.calls[0] > self.time_window`
RECURSIVE PopOld(_, _, _)
PopOld(calls, current_time, time_window) ==
    IF calls # <<>> /\ current_time - Head(calls) > time_window
    THEN PopOld(Tail(calls), current_time, time_window)
    ELSE calls

\* the locked part of one pass of SlidingWindowRateLimiter.acquire
SlidingWindowRateLimiterAcquire(w, t) ==
    LET calls == PopOld(w.calls, t, w.time_window)
    IN  IF Len(calls) < w.max_calls
        THEN [b |-> [w EXCEPT !.calls = Append(calls, t)], ok |-> TRUE]
        ELSE [b |-> [w EXCEPT !.calls = calls], ok |-> FALSE]

\* the locked part of one pass of the loop of either acquire
BlockingPass(kind, b, n, t) ==
    IF kind = "rate_limiter" THEN RateLimiterAcquire(b, n, t)
    ELSE SlidingWindowRateLimiterAcquire(b, t)

\* the argument of time.sleep at the end of a pass that was denied
BlockingSleepTime(kind, b, n, t) ==
    IF kind = "rate_limiter"
    THEN FracMin(SleepCap,
                 <<n * b.refill_rate[2] - b.tokens, b.refill_rate[1]>>)
    ELSE IF b.calls # <<>>
    THEN FracMax(SleepFloor,
                 FracMin(SleepCap,
                         <<b.time_window - (t - Head(b.calls)), 1>>))
    ELSE SleepFloor

\* `if timeout and (time.time() - start_time) >= timeout`
TimedOut(timeout, start_time, t) ==
    timeout # NoTime /\ timeout # 0 /\ t - start_time >= timeout

InitBL ==
    /\ now = 1
    /\ \E kind \in {"rate_limiter", "sliding_window"} :
         /\ bl_kind = kind
         /\ IF kind = "rate_limiter"
            THEN \E c \in BlockingConfigs :
                    bl = RateLimiterNew(c[1], c[2], c[3], now)
            ELSE \E max_calls \in {1, 2} :
                    bl = SlidingWindowRateLimiterNew(max_calls, 1)
    /\ bl_pc = "idle"
    /\ bl_call = [op |-> "none"]
    /\ bl_n = 0
    /\ bl_last = [op |-> "init"]
    /\ NotBlUnused

BLTick ==
    /\ bl_pc = "idle"
    /\ now < MaxTime
    /\ now' = now + 1
    /\ UNCHANGED <<notBl, blVars>>

\* acquire(tokens, blocking, timeout) is called: `start_time = time.time()`
BLCall ==
    /\ bl_pc = "idle"
    /\ bl_n < MaxBlockingCalls
    /\ now + CallSpan <= MaxTime
    /\ \E tokens \in {1, 2, 3}, blocking \in BOOLEAN, timeout \in Timeouts :
         /\ bl_kind = "sliding_window" => tokens = 1
         /\ bl_call' = [op |-> "acquire", tokens |-> tokens,
                        blocking |-> blocking, timeout |-> timeout,
                        start_time |-> now, sleeps |-> 0]
    /\ bl_pc' = "loop"
    /\ bl_n' = bl_n + 1
    /\ UNCHANGED <<now, notBl, bl_kind, bl, bl_last>>

\* one pass of `while True` up to its return or its sleep
BLPass ==
    /\ bl_pc = "loop"
    /\ LET r == BlockingPass(bl_kind, bl, bl_call.tokens, now)
           returned(res) ==
               /\ bl_pc' = "idle"
               /\ bl_last' = [op |-> "acquire", res |-> res, t |-> now,
                              before |-> bl, call |-> bl_call]
               /\ bl_call' = [op |-> "none"]
       IN  /\ bl' = r.b
           /\ IF r.ok THEN returned(TRUE)
              ELSE IF ~bl_call.blocking THEN returned(FALSE)
              ELSE IF TimedOut(bl_call.timeout, bl_call.start_time, now)
              THEN returned(FALSE)
              ELSE /\ bl_pc' = "sleep"
                   /\ UNCHANGED <<bl_call, bl_last>>
    /\ UNCHANGED <<now, notBl, bl_kind, bl_n>>

\* time.sleep(sleep_time); past MaxTime the clock is no longer counted
BLSleep ==
    /\ bl_pc = "sleep"
    /\ now' = Min(MaxTime,
                  now + SleepTicks(BlockingSleepTime(bl_kind, bl,
                                                     bl_call.tokens, now)))
    /\ bl_call' = [bl_call EXCEPT !.sleeps = Min(MaxTime, @ + 1)]
    /\ bl_pc' = "loop"
    /\ UNCHANGED <<notBl, bl_kind, bl, bl_n, bl_last>>

NextBL ==
    \/ BLTick
    \/ BLCall
    \/ BLPass
    \/ BLSleep

SpecBL == InitBL /\ [][NextBL]_vars

\* the thread running acquire is scheduled again and again
SpecBLFair == SpecBL /\ WF_vars(BLPass) /\ WF_vars(BLSleep)

-----------------------------------------------------------------------------
(* advanced_cache.py: MemoryCacheBackend, FileCacheBackend, MultiLevelCache *)
(* and AdvancedCache.  The clock ticks once per second.  A Python dict is  *)
(* the sequence of its (key, value) pairs in insertion order.              *)

StoreKeys == {"a", "b", "c"}

\* the values stored: the n-th operation of a run stores n
CacheValues == 1..8

\* the None a get returns for a key it does not hold
Absent == 0

\* `key in d`
DictHas(d, k) == \E i \in 1..Len(d) : d[i][1] = k

DictIndex(d, k) == CHOOSE i \in 1..Len(d) : d[i][1] = k

\* `d[key]`
DictGet(d, k) == d[DictIndex(d, k)][2]

\* `d[key] = v`: an old key keeps its place, a new one goes last
DictPut(d, k, v) ==
    IF DictHas(d, k) THEN [d EXCEPT ![DictIndex(d, k)] = <<k, v>>]
    ELSE Append(d, <<k, v>>)

\* `del d[key]`
DictDel(d, k) == SelectSeq(d, LAMBDA p : p[1] # k)

\* `list(d.keys())`
DictKeys(d) == [i \in 1..Len(d) |-> d[i][1]]

\* the keys of a dict as a set
KeySet(d) == {d[i][1] : i \in 1..Len(d)}

\* len(pickle.dumps(value)) of a small int
PickledSize(value) == 5

\* CacheEntry.is_expired at clock reading t
IsExpired(entry, t) ==
    IF entry.ttl = NoTime THEN FALSE ELSE t - entry.created_at > entry.ttl

\* MemoryCacheBackend.__init__
MemoryCacheBackendNew(config) ==
    [config |-> config, store |-> <<>>, access_order |-> <<>>,
     frequency_counter |-> <<>>]

\* _update_access_patterns leaving a key that is already in access_order
\* where it is
UpdateAccessPatterns_noMove(b, key, t) ==
    [b EXCEPT
       !.access_order = DictPut(@, key, t),
       !.frequency_counter =
           DictPut(@, key, (IF DictHas(@, key) THEN DictGet(@, key) ELSE 0) + 1)]

\* _update_access_patterns storing 1 in place of the incremented count
UpdateAccessPatterns_noCount(b, key, t) ==
    [b EXCEPT
       !.access_order = Append(DictDel(@, key), <<key, t>>),
       !.frequency_counter = DictPut(@, key, 1)]

\* MemoryCacheBackend._update_access_patterns
UpdateAccessPatterns(b, key, t) ==
    [b EXCEPT
       !.access_order = Append(DictDel(@, key), <<key, t>>),
       !.frequency_counter =
           DictPut(@, key, (IF DictHas(@, key) THEN DictGet(@, key) ELSE 0) + 1)]

\* MemoryCacheBackend._evict
Evict(b, key) ==
    [b EXCEPT !.store = DictDel(@, key),
              !.access_order = DictDel(@, key),
              !.frequency_counter = DictDel(@, key)]

\* the first key of a dict of numbers whose value is the least:
\* `[k for k, v in d.items() if v == min(d.values())][0]`
FirstMin(d) ==
    LET i == CHOOSE i \in 1..Len(d) :
                 /\ \A j \in 1..Len(d) : d[i][2] <= d[j][2]
                 /\ \A j \in 1..(i - 1) : d[j][2] > d[i][2]
    IN  d[i][1]

\* the created_at of every entry of the store, under its key
CreatedAt(store) ==
    [i \in 1..Len(store) |-> <<store[i][1], store[i][2].created_at>>]

\* MemoryCacheBackend._evict_lru at clock reading t
EvictLru(b, t) ==
    IF b.access_order = <<>> THEN b
    ELSE CASE b.config.strategy = "lru" -> Evict(b, b.access_order[1][1])
           [] b.config.strategy = "lfu" ->
                 IF b.frequency_counter = <<>> THEN b
                 ELSE Evict(b, FirstMin(b.frequency_counter))
           [] b.config.strategy = "fifo" ->
                 Evict(b, FirstMin(CreatedAt(b.store)))
           [] b.config.strategy = "ttl" ->
                 LET expired == SelectSeq(b.store,
                                          LAMBDA p : IsExpired(p[2], t))
                 IN  IF expired # <<>> THEN Evict(b, expired[1][1])
                     ELSE Evict(b, b.access_order[1][1])
           [] OTHER -> b

\* MemoryCacheBackend.get evicting an expired entry whatever
\* lazy_expiration says
MemGet_alwaysLazy(b, key, t) ==
    IF ~DictHas(b.store, key) THEN [b |-> b, value |-> Absent]
    ELSE LET entry == DictGet(b.store, key)
         IN  IF IsExpired(entry, t)
             THEN [b |-> Evict(b, key), value |-> Absent]
             ELSE LET touched == [entry EXCEPT !.last_accessed = t,
                                               !.access_count = @ + 1]
                      b1 == [b EXCEPT !.store = DictPut(@, key, touched)]
                  IN  [b |-> UpdateAccessPatterns(b1, key, t),
                       value |-> entry.value]

\* MemoryCacheBackend.get(key) at clock reading t: the backend afterwards
\* and the value returned
MemGet(b, key, t) ==
    IF ~DictHas(b.store, key) THEN [b |-> b, value |-> Absent]
    ELSE LET entry == DictGet(b.store, key)
         IN  IF IsExpired(entry, t) /\ b.config.lazy_expiration
             THEN [b |-> Evict(b, key), value |-> Absent]
             ELSE LET touched == [entry EXCEPT !.last_accessed = t,
                                               !.access_count = @ + 1]
                      b1 == [b EXCEPT !.store = DictPut(@, key, touched)]
                  IN  [b |-> UpdateAccessPatterns(b1, key, t),
                       value |-> entry.value]

\* MemoryCacheBackend.set evicting whenever the store is full, new key or
\* not
MemSet_evictOnOverwrite(b, key, value, ttl, t) ==
    LET entry == [key |-> key, value |-> value, created_at |-> t,
                  last_accessed |-> t, access_count |-> 0,
                  ttl |-> IF ttl # NoTime /\ ttl # 0 THEN ttl
                          ELSE b.config.default_ttl,
                  size |-> PickledSize(value)]
        b1 == IF Len(b.store) >= b.config.max_size
              THEN EvictLru(b, t) ELSE b
        b2 == [b1 EXCEPT !.store = DictPut(@, key, entry)]
    IN  [b |-> UpdateAccessPatterns(b2, key, t), ok |-> TRUE]

\* MemoryCacheBackend.set(key, value, ttl) at clock reading t
MemSet(b, key, value, ttl, t) ==
    LET entry == [key |-> key, value |-> value, created_at |-> t,
                  last_accessed |-> t, access_count |-> 0,
                  ttl |-> IF ttl # NoTime /\ ttl # 0 THEN ttl
                          ELSE b.config.default_ttl,
                  size |-> PickledSize(value)]
        b1 == IF Len(b.store) >= b.config.max_size /\ ~DictHas(b.store, key)
              THEN EvictLru(b, t) ELSE b
        b2 == [b1 EXCEPT !.store = DictPut(@, key, entry)]
    IN  [b |-> UpdateAccessPatterns(b2, key, t), ok |-> TRUE]

\* MemoryCacheBackend.delete
MemDelete(b, key) ==
    IF DictHas(b.store, key) THEN [b |-> Evict(b, key), ok |-> TRUE]
    ELSE [b |-> b, ok |-> FALSE]

\* MemoryCacheBackend.clear leaving the store as it is
MemClear_keepStore(b) ==
    [b EXCEPT !.access_order = <<>>, !.frequency_counter = <<>>]

\* MemoryCacheBackend.clear
MemClear(b) ==
    [b EXCEPT !.store = <<>>, !.access_order = <<>>,
              !.frequency_counter = <<>>]

\* MemoryCacheBackend.keys
MemKeys(b) == DictKeys(b.store)

\* MemoryCacheBackend.size
MemSize(b) == Len(b.store)

\* FileCacheBackend._get_file_path: the md5 of the key names the file
GetFilePath(key) ==
    CASE key = "a" -> "0cc175b9.cache"
      [] key = "b" -> "92eb5ffe.cache"
      [] OTHER -> "4a8a08f0.cache"

\* FileCacheBackend.get over the files f of the cache directory
FileGet(f, key, t) ==
    LET file_path == GetFilePath(key)
    IN  IF ~DictHas(f, file_path) THEN [f |-> f, value |-> Absent]
        ELSE LET data == DictGet(f, file_path)
             IN  IF t - data.created_at > data.ttl
                 THEN [f |-> DictDel(f, file_path), value |-> Absent]
                 ELSE [f |-> f, value |-> data.value]

\* FileCacheBackend.set
FileSet(f, config, key, value, ttl, t) ==
    [f |-> DictPut(f, GetFilePath(key),
                   [key |-> key, value |-> value, created_at |-> t,
                    ttl |-> IF ttl # NoTime /\ ttl # 0 THEN ttl
                            ELSE config.default_ttl]),
     ok |-> TRUE]

\* FileCacheBackend.delete
FileDelete(f, key) ==
    IF DictHas(f, GetFilePath(key))
    THEN [f |-> DictDel(f, GetFilePath(key)), ok |-> TRUE]
    ELSE [f |-> f, ok |-> FALSE]

\* FileCacheBackend.clear
FileClear(f) == <<>>

\* FileCacheBackend.keys
FileKeys(f) == [i \in 1..Len(f) |-> f[i][2].key]

\* FileCacheBackend.size
FileSize(f) == Len(f)

\* the CacheConfigs of the memory backends: small sizes, a short
\* default_ttl, every strategy, lazy_expiration on and off
CacheConfigs ==
    {c \in [max_size : {1, 2}, default_ttl : {2},
            strategy : {"lru", "lfu", "fifo", "ttl", "adaptive"},
            lazy_expiration : BOOLEAN] :
        /\ c.max_size = 1 => c.strategy = "lru" /\ c.lazy_expiration
        /\ ~c.lazy_expiration => c.strategy \in {"lru", "ttl"}}

\* CacheConfig(max_size, default_ttl, backend): strategy and
\* lazy_expiration at their defaults
DefaultCacheConfig(max_size, default_ttl) ==
    [max_size |-> max_size, default_ttl |-> default_ttl, strategy |-> "lru",
     lazy_expiration |-> TRUE]

NoStats ==
    [l1_hits |-> 0, l1_misses |-> 0, l2_hits |-> 0, l2_misses |-> 0,
     promotions |-> 0]

\* MultiLevelCache.__init__ for a config without l1_cache and l2_cache
MultiLevelCacheNew(config) ==
    [multi |-> TRUE,
     l1 |-> MemoryCacheBackendNew(
                DefaultCacheConfig(Min(config.max_size, 100),
                                   config.default_ttl)),
     l2_config |-> DefaultCacheConfig(config.max_size * 10,
                                      config.default_ttl * 2),
     l2 |-> <<>>, stats |-> NoStats]

\* a bare MemoryCacheBackend, held like the l1 of a MultiLevelCache
SingleBackendNew(config) ==
    [multi |-> FALSE, l1 |-> MemoryCacheBackendNew(config),
     l2_config |-> config, l2 |-> <<>>, stats |-> NoStats]

\* AdvancedCache.__init__: a MultiLevelCache when the config names an
\* l1_cache (CacheConfig.__post_init__ then supplies the l2_cache), a single
\* backend otherwise
AdvancedCacheNew(config, l1_cache) ==
    IF l1_cache
    THEN [multi |-> TRUE,
          l1 |-> MemoryCacheBackendNew(
                     DefaultCacheConfig(config.max_size, config.default_ttl)),
          l2_config |-> DefaultCacheConfig(config.max_size * 10,
                                           config.default_ttl * 2),
          l2 |-> <<>>, stats |-> NoStats]
    ELSE SingleBackendNew(config)

\* MultiLevelCache.get returning an L2 hit without copying it into L1
MultiLevelGet_noPromote(c, key, t) ==
    LET g1 == MemGet(c.l1, key, t)
    IN  IF g1.value # Absent
        THEN [c |-> [c EXCEPT !.l1 = g1.b, !.stats.l1_hits = @ + 1],
              value |-> g1.value]
        ELSE LET g2 == FileGet(c.l2, key, t)
             IN  IF g2.value # Absent
                 THEN [c |-> [c EXCEPT !.l1 = g1.b, !.l2 = g2.f,
                                       !.stats.l1_misses = @ + 1,
                                       !.stats.l2_hits = @ + 1],
                       value |-> g2.value]
                 ELSE [c |-> [c EXCEPT !.l1 = g1.b, !.l2 = g2.f,
                                       !.stats.l1_misses = @ + 1,
                                       !.stats.l2_misses = @ + 1],
                       value |-> Absent]

\* MultiLevelCache.get
MultiLevelGet(c, key, t) ==
    LET g1 == MemGet(c.l1, key, t)
    IN  IF g1.value # Absent
        THEN [c |-> [c EXCEPT !.l1 = g1.b, !.stats.l1_hits = @ + 1],
              value |-> g1.value]
        ELSE LET g2 == FileGet(c.l2, key, t)
             IN  IF g2.value # Absent
                 THEN [c |-> [c EXCEPT
                                !.l1 = MemSet(g1.b, key, g2.value, NoTime, t).b,
                                !.l2 = g2.f,
                                !.stats.l1_misses = @ + 1,
                                !.stats.l2_hits = @ + 1,
                                !.stats.promotions = @ + 1],
                       value |-> g2.value]
                 ELSE [c |-> [c EXCEPT !.l1 = g1.b, !.l2 = g2.f,
                                       !.stats.l1_misses = @ + 1,
                                       !.stats.l2_misses = @ + 1],
                       value |-> Absent]

\* MultiLevelCache.set
MultiLevelSet(c, key, value, ttl, t) ==
    LET s1 == MemSet(c.l1, key, value, ttl, t)
        s2 == FileSet(c.l2, c.l2_config, key, value, ttl, t)
    IN  [c |-> [c EXCEPT !.l1 = s1.b, !.l2 = s2.f], ok |-> s1.ok \/ s2.ok]

\* MultiLevelCache.delete
MultiLevelDelete(c, key) ==
    LET d1 == MemDelete(c.l1, key)
        d2 == FileDelete(c.l2, key)
    IN  [c |-> [c EXCEPT !.l1 = d1.b, !.l2 = d2.f], ok |-> d1.ok \/ d2.ok]

\* MultiLevelCache.clear
MultiLevelClear(c) == [c EXCEPT !.l1 = MemClear(@), !.l2 = FileClear(@)]

\* get, set, delete and clear of the cache at hand; AdvancedCache hands
\* each to its backend, and its get returns the default None for a miss
CacheGet(c, key, t) ==
    IF c.multi THEN MultiLevelGet(c, key, t)
    ELSE LET g == MemGet(c.l1, key, t)
         IN  [c |-> [c EXCEPT !.l1 = g.b], value |-> g.value]

CacheSet(c, key, value, ttl, t) ==
    IF c.multi THEN MultiLevelSet(c, key, value, ttl, t)
    ELSE LET r == MemSet(c.l1, key, value, ttl, t)
         IN  [c |-> [c EXCEPT !.l1 = r.b], ok |-> r.ok]

CacheDelete(c, key) ==
    IF c.multi THEN MultiLevelDelete(c, key)
    ELSE LET r == MemDelete(c.l1, key)
         IN  [c |-> [c EXCEPT !.l1 = r.b], ok |-> r.ok]

CacheClear(c) ==
    IF c.multi THEN MultiLevelClear(c) ELSE [c EXCEPT !.l1 = MemClear(@)]

\* what get_stats reports as size: the entries of every level
CacheSize(c) == MemSize(c.l1) + (IF c.multi THEN FileSize(c.l2) ELSE 0)

\* the keys of every level
CacheKeySet(c) ==
    KeySet(c.l1.store)
        \cup (IF c.multi THEN {c.l2[i][2].key : i \in 1..Len(c.l2)} ELSE {})

\* the history after an operation that touched the key `touched` (None
\* when it touched none) and left the keys `present` in the store
HistAfter(hist, touched, present) ==
    LET kept == SelectSeq(hist.order,
                          LAMBDA k : k # touched /\ k \in present)
    IN  [order |-> IF touched # None THEN Append(kept, touched) ELSE kept,
         count |-> [k \in present |->
                      IF k = touched
                      THEN (IF k \in DOMAIN hist.count THEN hist.count[k]
                            ELSE 0) + 1
                      ELSE hist.count[k]]]

\* operations on the cache and ticks of the clock in one run
MaxCacheOps == 4

\* ttl arguments of set: None, 0 and one second
CacheTtls == {NoTime, 0, 1}

InitMC ==
    /\ now = 1
    /\ \E kind \in {"MemoryCacheBackend", "MultiLevelCache", "AdvancedCache"},
          config \in CacheConfigs, l1_cache \in BOOLEAN :
         /\ kind # "AdvancedCache" => ~l1_cache
         /\ kind # "MemoryCacheBackend"
              => config = DefaultCacheConfig(1, 2)
         /\ mc_cfg = [kind |-> kind, config |-> config, l1_cache |-> l1_cache]
         /\ mc = CASE kind = "MemoryCacheBackend" -> SingleBackendNew(config)
                   [] kind = "MultiLevelCache" -> MultiLevelCacheNew(config)
                   [] OTHER -> AdvancedCacheNew(config, l1_cache)
    /\ mc_hist = [order |-> <<>>, count |-> <<>>]
    /\ mc_n = 0
    /\ mc_last = [op |-> "init", key |-> None, value |-> Absent,
                  res |-> TRUE, n |-> 0, t |-> now, held |-> FALSE]
    /\ NotMcUnused

\* the history is kept for a bare memory backend
NextHist(touched, c) ==
    IF mc_cfg.kind = "MemoryCacheBackend"
    THEN HistAfter(mc_hist, touched, KeySet(c.l1.store))
    ELSE mc_hist

MCTick ==
    /\ mc_n < MaxCacheOps
    /\ now < MaxTime
    /\ now' = now + 1
    /\ mc_n' = mc_n + 1
    /\ UNCHANGED <<notMc, mc_cfg, mc, mc_hist, mc_last>>

MCSet ==
    /\ mc_n < MaxCacheOps
    /\ \E key \in StoreKeys, value \in {mc_n + 1}, ttl \in CacheTtls :
         LET r == CacheSet(mc, key, value, ttl, now)
         IN  /\ mc' = r.c
             /\ mc_hist' = NextHist(key, r.c)
             /\ mc_last' = [op |-> "set", key |-> key, value |-> value,
                            res |-> r.ok, n |-> mc_n + 1, t |-> now,
                            held |-> DictHas(mc.l1.store, key)]
    /\ mc_n' = mc_n + 1
    /\ UNCHANGED <<now, notMc, mc_cfg>>

MCGet ==
    /\ mc_n < MaxCacheOps
    /\ \E key \in StoreKeys :
         LET r == CacheGet(mc, key, now)
         IN  /\ mc' = r.c
             /\ mc_hist' = NextHist(IF r.value # Absent THEN key ELSE None,
                                    r.c)
             /\ mc_last' = [op |-> "get", key |-> key, value |-> r.value,
                            res |-> r.value # Absent, n |-> mc_n + 1,
                            t |-> now, held |-> DictHas(mc.l1.store, key)]
    /\ mc_n' = mc_n + 1
    /\ UNCHANGED <<now, notMc, mc_cfg>>

MCDelete ==
    /\ mc_n < MaxCacheOps
    /\ \E key \in StoreKeys :
         LET r == CacheDelete(mc, key)
         IN  /\ mc' = r.c
             /\ mc_hist' = NextHist(None, r.c)
             /\ mc_last' = [op |-> "delete", key |-> key, value |-> Absent,
                            res |-> r.ok, n |-> mc_n + 1, t |-> now,
                            held |-> DictHas(mc.l1.store, key)]
    /\ mc_n' = mc_n + 1
    /\ UNCHANGED <<now, notMc, mc_cfg>>

MCClear ==
    /\ mc_n < MaxCacheOps
    /\ mc' = CacheClear(mc)
    /\ mc_hist' = NextHist(None, CacheClear(mc))
    /\ mc_last' = [op |-> "clear", key |-> None, value |-> Absent,
                   res |-> TRUE, n |-> mc_n + 1, t |-> now,
                   held |-> CacheSize(mc) > 0]
    /\ mc_n' = mc_n + 1
    /\ UNCHANGED <<now, notMc, mc_cfg>>

NextMC ==
    \/ MCTick
    \/ MCSet
    \/ MCGet
    \/ MCDelete
    \/ MCClear

SpecMC == InitMC /\ [][NextMC]_vars

-----------------------------------------------------------------------------
(* MultiLevelCache on its own: longer runs on two keys over an L1 of one   *)
(* entry, so that an entry is evicted from L1, promoted from L2 and ages.  *)

LevelKeys == {"a", "b"}

\* ttl arguments of set: None and one second
LevelTtls == {NoTime, 1}

\* operations on the cache and ticks of the clock in one run
MaxLevelOps == 6

\* the configs of the MultiLevelCache: an L1 of one entry, a default_ttl of
\* one and of two seconds (L2 then keeps entries two and four seconds)
LevelConfigs == {DefaultCacheConfig(1, 1), DefaultCacheConfig(1, 2)}

\* the entry of key k in L1 is there and not expired at clock reading t
L1Live(c, k, t) ==
    DictHas(c.l1.store, k) /\ ~IsExpired(DictGet(c.l1.store, k), t)

\* the file of key k is in L2 and not expired at clock reading t
L2Live(c, k, t) ==
    /\ DictHas(c.l2, GetFilePath(k))
    /\ t - DictGet(c.l2, GetFilePath(k)).created_at
          <= DictGet(c.l2, GetFilePath(k)).ttl

\* the level that answers get(k): "l1", "l2" or "miss"
Level(c, k, t) ==
    IF L1Live(c, k, t) THEN "l1" ELSE IF L2Live(c, k, t) THEN "l2" ELSE "miss"

\* no set yet
NoSet == [t |-> NoTime, ttl |-> NoTime, promoted |-> FALSE]

InitML ==
    /\ now = 1
    /\ \E config \in LevelConfigs :
         /\ mc_cfg = [kind |-> "MultiLevelCache", config |-> config,
                      l1_cache |-> FALSE]
         /\ mc = MultiLevelCacheNew(config)
    /\ mc_hist = [k \in LevelKeys |-> NoSet]
    /\ mc_n = 0
    /\ mc_last = [op |-> "init", key |-> None, value |-> Absent,
                  res |-> TRUE, n |-> 0, t |-> now, level |-> "miss"]
    /\ NotMcUnused

MLTick ==
    /\ mc_n < MaxLevelOps
    /\ now < MaxTime
    /\ now' = now + 1
    /\ mc_n' = mc_n + 1
    /\ UNCHANGED <<notMc, mc_cfg, mc, mc_hist, mc_last>>

MLSet ==
    /\ mc_n < MaxLevelOps
    /\ \E key \in LevelKeys, value \in {mc_n + 1}, ttl \in LevelTtls :
         LET r == MultiLevelSet(mc, key, value, ttl, now)
         IN  /\ mc' = r.c
             /\ mc_hist' = [mc_hist EXCEPT ![key] =
                              [t |-> now, ttl |-> ttl, promoted |-> FALSE]]
             /\ mc_last' = [op |-> "set", key |-> key, value |-> value,
                            res |-> r.ok, n |-> mc_n + 1, t |-> now,
                            level |-> Level(mc, key, now)]
    /\ mc_n' = mc_n + 1
    /\ UNCHANGED <<now, notMc, mc_cfg>>

MLGet ==
    /\ mc_n < MaxLevelOps
    /\ \E key \in LevelKeys :
         LET r == MultiLevelGet(mc, key, now)
         IN  /\ mc' = r.c
             /\ mc_hist' = [mc_hist EXCEPT ![key].promoted =
                              @ \/ Level(mc, key, now) = "l2"]
             /\ mc_last' = [op |-> "get", key |-> key, value |-> r.value,
                            res |-> r.value # Absent, n |-> mc_n + 1,
                            t |-> now, level |-> Level(mc, key, now)]
    /\ mc_n' = mc_n + 1
    /\ UNCHANGED <<now, notMc, mc_cfg>>

MLDelete ==
    /\ mc_n < MaxLevelOps
    /\ \E key \in LevelKeys :
         LET r == MultiLevelDelete(mc, key)
         IN  /\ mc' = r.c
             /\ mc_last' = [op |-> "delete", key |-> key, value |-> Absent,
                            res |-> r.ok, n |-> mc_n + 1, t |-> now,
                            level |-> Level(mc, key, now)]
    /\ mc_n' = mc_n + 1
    /\ UNCHANGED <<now, notMc, mc_cfg, mc_hist>>

NextML ==
    \/ MLTick
    \/ MLSet
    \/ MLGet
    \/ MLDelete

SpecML == InitML /\ [][NextML]_vars

-----------------------------------------------------------------------------
(* MultiLevelCache.get called by several threads.  A backend's get and set *)
(* run under the backend's own lock and are one step each.  MultiLevelCache *)
(* holds no lock of its own: `self.stats[name] += 1` is two steps, the     *)
(* load of the counter and the store of the sum.                           *)

\* get calls begun in one run
MaxGets == 2

\* the caches the threads start on: an empty one, one holding "a" in both
\* levels, and one whose L1 of one entry holds "b" and whose L2 holds both
SharedCaches ==
    LET c0 == MultiLevelCacheNew(DefaultCacheConfig(1, 2))
        c1 == MultiLevelSet(c0, "a", 1, NoTime, 1).c
        c2 == MultiLevelSet(c1, "b", 2, NoTime, 1).c
    IN  {c0, c1, c2}

InitMT ==
    /\ now = 1
    /\ mc_cfg = [kind |-> "MultiLevelCache",
                 config |-> DefaultCacheConfig(1, 2), l1_cache |-> FALSE]
    /\ mc \in SharedCaches
    /\ mc_hist = "-"
    /\ mc_n = 0
    /\ mc_last = "-"
    /\ mt_pc = [th \in Threads |-> "idle"]
    /\ mt_loc = [th \in Threads |->
                   [key |-> None, value |-> Absent, name |-> None, reg |-> 0]]
    /\ mt_done = [th \in Threads |-> 0]
    /\ NotMtUnused

\* a thread enters get(key)
MTCall(th) ==
    /\ mt_pc[th] = "idle"
    /\ mc_n < MaxGets
    /\ \E key \in LevelKeys :
         mt_loc' = [mt_loc EXCEPT ![th].key = key, ![th].value = Absent]
    /\ mt_pc' = [mt_pc EXCEPT ![th] = "l1_get"]
    /\ mc_n' = mc_n + 1
    /\ UNCHANGED <<now, notMt, mc_cfg, mc, mc_hist, mc_last, mt_done>>

\* value = self.l1.get(key), and the branch on `value is not None`
MTL1Get(th) ==
    /\ mt_pc[th] = "l1_get"
    /\ LET g == MemGet(mc.l1, mt_loc[th].key, now)
       IN  /\ mc' = [mc EXCEPT !.l1 = g.b]
           /\ mt_loc' = [mt_loc EXCEPT
                           ![th].value = g.value,
                           ![th].name = IF g.value # Absent THEN "l1_hits"
                                        ELSE "l1_misses"]
    /\ mt_pc' = [mt_pc EXCEPT ![th] = "load"]
    /\ UNCHANGED <<now, notMt, mc_cfg, mc_hist, mc_n, mc_last, mt_done>>

\* value = self.l2.get(key), and the branch on `value is not None`
MTL2Get(th) ==
    /\ mt_pc[th] = "l2_get"
    /\ LET g == FileGet(mc.l2, mt_loc[th].key, now)
       IN  /\ mc' = [mc EXCEPT !.l2 = g.f]
           /\ mt_loc' = [mt_loc EXCEPT
                           ![th].value = g.value,
                           ![th].name = IF g.value # Absent THEN "l2_hits"
                                        ELSE "l2_misses"]
    /\ mt_pc' = [mt_pc EXCEPT ![th] = "load"]
    /\ UNCHANGED <<now, notMt, mc_cfg, mc_hist, mc_n, mc_last, mt_done>>

\* self.l1.set(key, value)
MTPromote(th) ==
    /\ mt_pc[th] = "promote"
    /\ mc' = [mc EXCEPT !.l1 = MemSet(@, mt_loc[th].key, mt_loc[th].value,
                                      NoTime, now).b]
    /\ mt_loc' = [mt_loc EXCEPT ![th].name = "promotions"]
    /\ mt_pc' = [mt_pc EXCEPT ![th] = "load"]
    /\ UNCHANGED <<now, notMt, mc_cfg, mc_hist, mc_n, mc_last, mt_done>>

\* the first half of `self.stats[name] += 1`: the counter is loaded
MTLoad(th) ==
    /\ mt_pc[th] = "load"
    /\ mt_loc' = [mt_loc EXCEPT ![th].reg = mc.stats[mt_loc[th].name]]
    /\ mt_pc' = [mt_pc EXCEPT ![th] = "store"]
    /\ UNCHANGED <<now, notMt, mcVars, mt_done>>

\* the second half: the sum is stored; then get goes on or returns
MTStore(th) ==
    /\ mt_pc[th] = "store"
    /\ mc' = [mc EXCEPT !.stats[mt_loc[th].name] = mt_loc[th].reg + 1]
    /\ LET name == mt_loc[th].name
       IN  CASE name = "l1_misses" ->
                  /\ mt_pc' = [mt_pc EXCEPT ![th] = "l2_get"]
                  /\ UNCHANGED mt_done
             [] name = "l2_hits" ->
                  /\ mt_pc' = [mt_pc EXCEPT ![th] = "promote"]
                  /\ UNCHANGED mt_done
             [] OTHER ->
                  /\ mt_pc' = [mt_pc EXCEPT ![th] = "idle"]
                  /\ mt_done' = [mt_done EXCEPT ![th] = @ + 1]
    /\ UNCHANGED <<now, notMt, mc_cfg, mc_hist, mc_n, mc_last, mt_loc>>

NextMT ==
    \E th \in Threads :
        \/ MTCall(th)
        \/ MTL1Get(th)
        \/ MTL2Get(th)
        \/ MTPromote(th)
        \/ MTLoad(th)
        \/ MTStore(th)

SpecMT == InitMT /\ [][NextMT]_vars

-----------------------------------------------------------------------------
(* The patterns of AdvancedCache: write_through, write_behind with its     *)
(* delayed_write threads, and memoize.  The writes go to the key "a", the  *)
(* memoized function is called with "b" and "c" under key_func = str, and  *)
(* the cache keeps two entries, so that the three keys evict each other.   *)

WriteKeys == {"a"}

MemoArgs == {"b", "c"}

\* what the memoized function returns: None or a value
MemoResults == {Absent, 9}

\* the delay arguments of write_behind, in seconds
Delays == {0, 1, 2}

\* pattern calls and ticks of the clock in one run
MaxFacadeOps == 4

\* AdvancedCache.write_through with a writer_func whose call has the
\* outcome out, keeping the entry when the writer raises
WriteThrough_keepOnFailure(c, key, value, ttl, out, t) ==
    LET s == CacheSet(c, key, value, ttl, t)
    IN  IF out = "ok" THEN [c |-> s.c, ok |-> s.ok, raised |-> None]
        ELSE [c |-> s.c, ok |-> FALSE, raised |-> out]

\* AdvancedCache.write_through with a writer_func whose call has the
\* outcome out: the cache afterwards, the value returned, the exception
\* raised
WriteThrough(c, key, value, ttl, out, t) ==
    LET s == CacheSet(c, key, value, ttl, t)
    IN  IF out = "ok" THEN [c |-> s.c, ok |-> s.ok, raised |-> None]
        ELSE [c |-> CacheDelete(s.c, key).c, ok |-> FALSE, raised |-> out]

\* the thread write_behind starts: delayed_write before its time.sleep
DelayedWrite(key, value, delay, t) ==
    [key |-> key, value |-> value, called |-> t, delay |-> delay,
     state |-> "sleeping"]

\* AdvancedCache.write_behind starting no thread and calling the writer
\* itself
WriteBehind_noThread(c, key, value, ttl, delay, t) ==
    LET s == CacheSet(c, key, value, ttl, t)
    IN  [c |-> s.c, ok |-> s.ok, started |-> <<>>,
         written |-> <<[key |-> key, value |-> value, t |-> t, thread |-> 0,
                        out |-> "ok", seen |-> value]>>]

\* AdvancedCache.write_behind: the cache afterwards, the value returned,
\* the threads started and the writer calls made before it returns
WriteBehind(c, key, value, ttl, delay, t) ==
    LET s == CacheSet(c, key, value, ttl, t)
    IN  [c |-> s.c, ok |-> s.ok,
         started |-> <<DelayedWrite(key, value, delay, t)>>,
         written |-> <<>>]

\* the wrapper memoize builds, called with arg while the function would
\* return result: the cache afterwards, the value returned, and whether the
\* function was invoked.  key_func is str, so the cache key is the argument.
Memoized(c, arg, result, ttl, t) ==
    LET cache_key == arg
        g == CacheGet(c, cache_key, t)
    IN  IF g.value # Absent
        THEN [c |-> g.c, value |-> g.value, invoked |-> FALSE]
        ELSE [c |-> CacheSet(g.c, cache_key, result, ttl, t).c,
              value |-> result, invoked |-> TRUE]

\* the value get(key) would return now
Readable(c, key, t) == CacheGet(c, key, t).value

InitFC ==
    /\ now = 1
    /\ \E l1_cache \in BOOLEAN :
         /\ mc_cfg = [kind |-> "AdvancedCache",
                      config |-> DefaultCacheConfig(2, 2),
                      l1_cache |-> l1_cache]
         /\ mc = AdvancedCacheNew(mc_cfg.config, l1_cache)
    /\ mc_hist = [b |-> 0, c |-> 0]
    /\ mc_n = 0
    /\ mc_last = [op |-> "init", key |-> None, value |-> Absent,
                  ok |-> TRUE, raised |-> None, invoked |-> FALSE,
                  n |-> 0, t |-> now]
    /\ fc_threads = <<>>
    /\ fc_writes = <<>>
    /\ NotFcUnused

FCTick ==
    /\ mc_n < MaxFacadeOps
    /\ now < MaxTime
    /\ now' = now + 1
    /\ mc_n' = mc_n + 1
    /\ UNCHANGED <<notFc, mc_cfg, mc, mc_hist, mc_last, fcVars>>

FCWriteThrough ==
    /\ mc_n < MaxFacadeOps
    /\ \E key \in WriteKeys, value \in {mc_n + 1}, out \in Outcomes :
         LET r == WriteThrough(mc, key, value, NoTime, out, now)
         IN  /\ mc' = r.c
             /\ mc_last' = [op |-> "write_through", key |-> key,
                            value |-> value, ok |-> r.ok,
                            raised |-> r.raised, invoked |-> FALSE,
                            n |-> mc_n + 1, t |-> now]
             /\ fc_writes' =
                  Append(fc_writes,
                         [key |-> key, value |-> value, t |-> now,
                          thread |-> 0, out |-> out,
                          seen |-> Readable(
                                     CacheSet(mc, key, value, NoTime, now).c,
                                     key, now)])
    /\ mc_n' = mc_n + 1
    /\ UNCHANGED <<now, notFc, mc_cfg, mc_hist, fc_threads>>

FCMemoCall ==
    /\ mc_n < MaxFacadeOps
    /\ \E arg \in MemoArgs, result \in MemoResults :
         LET r == Memoized(mc, arg, result, NoTime, now)
         IN  /\ mc' = r.c
             /\ mc_hist' = [mc_hist EXCEPT ![arg] =
                              IF r.invoked THEN @ + 1 ELSE @]
             /\ mc_last' = [op |-> "memoized", key |-> arg,
                            value |-> r.value, ok |-> TRUE,
                            raised |-> None, invoked |-> r.invoked,
                            n |-> mc_n + 1, t |-> now]
    /\ mc_n' = mc_n + 1
    /\ UNCHANGED <<now, notFc, mc_cfg, fcVars>>

NextFC ==
    \/ FCTick
    \/ FCWriteThrough
    \/ FCMemoCall

SpecFC == InitFC /\ [][NextFC]_vars

-----------------------------------------------------------------------------
(* AdvancedCache.write_behind and the delayed_write threads it starts *)

\* the delayed_write threads of one run, in the order they are started
Writers == {1, 2}

InitWB ==
    /\ now = 1
    /\ \E l1_cache \in BOOLEAN :
         /\ mc_cfg = [kind |-> "AdvancedCache",
                      config |-> DefaultCacheConfig(2, 2),
                      l1_cache |-> l1_cache]
         /\ mc = AdvancedCacheNew(mc_cfg.config, l1_cache)
    /\ mc_hist = "-"
    /\ mc_n = 0
    /\ mc_last = [op |-> "init", key |-> None, value |-> Absent,
                  ok |-> TRUE, raised |-> None, invoked |-> FALSE,
                  n |-> 0, t |-> now]
    /\ fc_threads = <<>>
    /\ fc_writes = <<>>
    /\ NotFcUnused

WBTick ==
    /\ now < MaxTime
    /\ now' = now + 1
    /\ UNCHANGED <<notFc, mcVars, fcVars>>

WBCall ==
    /\ Len(fc_threads) < Cardinality(Writers)
    /\ \E key \in WriteKeys, value \in {mc_n + 1}, delay \in Delays :
         /\ now + delay <= MaxTime
         /\ LET r == WriteBehind(mc, key, value, NoTime, delay, now)
            IN  /\ mc' = r.c
                /\ mc_last' = [op |-> "write_behind", key |-> key,
                               value |-> value, ok |-> r.ok,
                               raised |-> None, invoked |-> FALSE,
                               n |-> mc_n + 1, t |-> now]
                /\ fc_threads' = fc_threads \o r.started
                /\ fc_writes' = fc_writes \o r.written
    /\ mc_n' = mc_n + 1
    /\ UNCHANGED <<now, notFc, mc_cfg, mc_hist>>

\* delayed_write of thread i after its time.sleep(delay): writer_func is
\* called, and what it raises is logged
WBDelayedWrite(i) ==
    /\ i \in 1..Len(fc_threads)
    /\ fc_threads[i].state = "sleeping"
    /\ now >= fc_threads[i].called + fc_threads[i].delay
    /\ \E out \in Outcomes :
         fc_writes' =
           Append(fc_writes,
                  [key |-> fc_threads[i].key, value |-> fc_threads[i].value,
                   t |-> now, thread |-> i, out |-> out,
                   seen |-> Readable(mc, fc_threads[i].key, now)])
    /\ fc_threads' = [fc_threads EXCEPT ![i].state = "done"]
    /\ UNCHANGED <<now, notFc, mcVars>>

NextWB ==
    \/ WBTick
    \/ WBCall
    \/ \E i \in Writers : WBDelayedWrite(i)

SpecWB == InitWB /\ [][NextWB]_vars

\* the clock goes on, and a started thread that has slept its delay runs
SpecWBFair ==
    /\ SpecWB
    /\ WF_vars(WBTick)
    /\ \A i \in Writers : WF_vars(WBDelayedWrite(i))

-----------------------------------------------------------------------------
(* get_global_rate_limiter and get_global_cache called by several threads. *)
(* Neither holds a lock: the test `if _global is None`, the construction   *)
(* with its assignment to the global, and `return _global` are a step each. *)

Accessors == {"get_global_rate_limiter", "get_global_cache"}

\* accessor calls begun in one run
MaxAccessorCalls == 3

\* the accessor calls that are running
Running == {th \in Threads : gs_pc[th] # "idle"}

\* accessor calls begun so far
Begun == Len(gs_ret) + Cardinality(Running)

InitGS ==
    /\ now = 1
    /\ gs_global = [a \in Accessors |-> None]
    /\ gs_pc = [th \in Threads |-> "idle"]
    /\ gs_loc = [th \in Threads |-> [accessor |-> None, call |-> "0"]]
    /\ gs_ret = <<>>
    /\ NotGsUnused

\* a thread calls an accessor; the call is numbered, and an instance is
\* known by the number of the call that constructs it
GSCall(th) ==
    /\ gs_pc[th] = "idle"
    /\ Begun < MaxAccessorCalls
    /\ \E a \in Accessors :
         gs_loc' = [gs_loc EXCEPT
                      ![th] = [accessor |-> a, call |-> ToString(Begun + 1)]]
    /\ gs_pc' = [gs_pc EXCEPT ![th] = "test"]
    /\ UNCHANGED <<now, notGs, gs_global, gs_ret>>

\* if _global_... is None:
GSTest(th) ==
    /\ gs_pc[th] = "test"
    /\ gs_pc' = [gs_pc EXCEPT ![th] =
                   IF gs_global[gs_loc[th].accessor] = None THEN "create"
                   ELSE "return"]
    /\ UNCHANGED <<now, notGs, gs_global, gs_loc, gs_ret>>

\* _global_... = AdvancedRateLimiter() / AdvancedCache(CacheConfig())
GSCreate(th) ==
    /\ gs_pc[th] = "create"
    /\ gs_global' = [gs_global EXCEPT ![gs_loc[th].accessor] = gs_loc[th].call]
    /\ gs_pc' = [gs_pc EXCEPT ![th] = "return"]
    /\ UNCHANGED <<now, notGs, gs_loc, gs_ret>>

\* return _global_...
GSReturn(th) ==
    /\ gs_pc[th] = "return"
    /\ gs_ret' = Append(gs_ret, [accessor |-> gs_loc[th].accessor,
                                 instance |-> gs_global[gs_loc[th].accessor],
                                 thread |-> th])
    /\ gs_pc' = [gs_pc EXCEPT ![th] = "idle"]
    /\ UNCHANGED <<now, notGs, gs_global, gs_loc>>

NextGS ==
    \E th \in Threads :
        \/ GSCall(th)
        \/ GSTest(th)
        \/ GSCreate(th)
        \/ GSReturn(th)

SpecGS == InitGS /\ [][NextGS]_vars

-----------------------------------------------------------------------------
(* Properties of CircuitBreaker, checked under SpecCB *)

Last(s) == s[Len(s)]

\* a step of CircuitBreaker.call
CallStep == Len(cb_log') = Len(cb_log) + 1

\* e is an exception the breaker counts as a failure
Qualifying(e) == e \in Raised /\ IsInstance(e, cb_cfg.expected_exception)

\* every call since the fresh breaker ran the function and raised a
\* qualifying exception, all within one monitoring window
FailureStreak ==
    /\ cb_op = "call"
    /\ cb_log # <<>>
    /\ \A i \in 1..Len(cb_log) : cb_log[i].inv /\ Qualifying(cb_log[i].res)
    /\ Last(cb_log).t - cb_log[1].t < cb_cfg.monitoring_window

\* C1: from a fresh CLOSED breaker, after k consecutive qualifying failures
\* inside the monitoring window the breaker is CLOSED while
\* k < failure_threshold and OPEN as soon as k = failure_threshold.
C1_OpensAtThreshold ==
    (FailureStreak /\ Len(cb_log) <= cb_cfg.failure_threshold)
        => cb.state = IF Len(cb_log) < cb_cfg.failure_threshold
                      THEN "closed" ELSE "open"

C1_Witness ==
    /\ FailureStreak
    /\ cb_cfg.failure_threshold = 2
    /\ Len(cb_log) = 2
    /\ cb_log[1].st = "closed" /\ cb_log[2].st = "closed"
    /\ cb.state = "open"

\* C2: a call made while OPEN before recovery_timeout has elapsed since the
\* last recorded failure raises CircuitBreakerOpenError without running the
\* function and leaves the breaker OPEN; a call made at or after that time
\* runs the function in HALF_OPEN.
C2_OpenRejectsUntilTimeout ==
    [][(CallStep /\ cb.state = "open") =>
         IF now - cb.last_failure_time < cb_cfg.recovery_timeout
         THEN /\ Last(cb_log').res = "CircuitBreakerOpenError"
              /\ ~Last(cb_log').inv
              /\ cb'.state = "open"
         ELSE /\ Last(cb_log').inv
              /\ Last(cb_log').st = "half_open"
              /\ Last(cb_log').res = Last(cb_log').fn]_vars

C2_Witness ==
    /\ cb_op = "call"
    /\ Len(cb_log) >= 2
    /\ cb_log[Len(cb_log) - 1].res = "CircuitBreakerOpenError"
    /\ ~cb_log[Len(cb_log) - 1].inv
    /\ Last(cb_log).inv
    /\ Last(cb_log).st = "half_open"
    /\ Last(cb_log).t - cb.last_failure_time >= 0

\* C3: a call that runs in HALF_OPEN and raises a qualifying exception
\* leaves the breaker OPEN with last_failure_time set to that failure, so
\* that it stays OPEN until recovery_timeout has elapsed from it.
C3_HalfOpenFailureReopens ==
    [][(CallStep /\ Last(cb_log').st = "half_open"
                 /\ Last(cb_log').inv /\ Qualifying(Last(cb_log').res)) =>
         /\ cb'.state = "open"
         /\ cb'.last_failure_time = now'
         /\ \A t \in now'..(MaxTime + MaxTimeout) :
              UpdateState(cb', cb_cfg, t).state =
                  IF t - now' < cb_cfg.recovery_timeout
                  THEN "open" ELSE "half_open"]_vars

C3_Witness ==
    /\ cb_op = "call"
    /\ Len(cb_log) >= 2
    /\ cb_log[Len(cb_log) - 1].st = "half_open"
    /\ cb_log[Len(cb_log) - 1].res = "ok"
    /\ Last(cb_log).st = "half_open"
    /\ Qualifying(Last(cb_log).res)
    /\ cb.state = "open"
    /\ cb.last_failure_time = Last(cb_log).t

\* C4: whenever the breaker goes from HALF_OPEN to CLOSED on re-evaluation,
\* failure count, failure timestamps and success counter are all reset.
C4_CloseResetsAllCounters ==
    [][(cb.state = "half_open" /\ cb'.state = "closed"
                               /\ cb_op' = "get_state") =>
         /\ cb'.failure_count = 0
         /\ cb'.failure_times = <<>>
         /\ cb'.success_count = 0]_vars

\* C5: a qualifying failure of a call that runs in CLOSED, with no recorded
\* failure older than the monitoring window, raises the failure count left
\* by the previous calls (decrements included) by one, and that count
\* decides whether the breaker opens.
C5_ClosedCountReflectsDecrements ==
    [][(CallStep /\ cb.state = "closed"
                 /\ Last(cb_log').inv /\ Qualifying(Last(cb_log').res)
                 /\ \A i \in 1..Len(cb.failure_times) :
                      cb.failure_times[i] > now - cb_cfg.monitoring_window) =>
         /\ cb'.failure_count = cb.failure_count + 1
         /\ (cb'.state = "open"
               <=> cb.failure_count + 1 >= cb_cfg.failure_threshold)]_vars

\* C6: a call whose function raises an exception that is not an instance of
\* expected_exception propagates that exception and leaves the breaker as
\* the re-evaluation at the start of the call left it.
C6_UnexpectedExceptionIgnored ==
    [][(CallStep /\ Last(cb_log').inv /\ Last(cb_log').fn \in Raised
                 /\ ~IsInstance(Last(cb_log').fn, cb_cfg.expected_exception)) =>
         /\ Last(cb_log').res = Last(cb_log').fn
         /\ cb' = UpdateState(cb, cb_cfg, now)]_vars

C6_Witness ==
    /\ cb_op = "call"
    /\ cb_log # <<>>
    /\ Last(cb_log).st = "half_open"
    /\ Last(cb_log).res = "TypeError"
    /\ cb_cfg.expected_exception = "ValueError"
    /\ cb.state = "half_open"
    /\ cb.last_failure_time < Last(cb_log).t

-----------------------------------------------------------------------------
(* Properties of the retry loops, checked under SpecRetry *)

\* e makes the loop try again while attempts remain
Retryable(e) ==
    /\ e \in Raised
    /\ AnyInstance(e, rt_cfg.exceptions)
    /\ ~AnyInstance(e, rt_cfg.stop_on)

\* the function raises retryable exceptions on its first k invocations and
\* succeeds on invocation k + 1
FailsThenSucceeds(k) ==
    /\ k < rt_cfg.max_attempts
    /\ \A i \in 1..k : Retryable(rt_script[i])
    /\ rt_script[k + 1] = "ok"

RetryDone == rt_pc \in {"returned", "raised"}

\* C9: when the function fails k < max_attempts times with a retryable
\* exception and then succeeds, the finished retry loop (mechanism or
\* decorator) has returned the function's value after exactly k + 1
\* invocations.
C9_RetriesUntilSuccess ==
    \A k \in 0..(MaxAttempts + 1) :
        (RetryDone /\ FailsThenSucceeds(k)) =>
            /\ rt_pc = "returned"
            /\ rt_out = "ok"
            /\ rt_calls = k + 1

C9_Witness ==
    /\ rt_kind = "mechanism"
    /\ FailsThenSucceeds(2)
    /\ rt_pc = "returned"
    /\ rt_calls = 3
    /\ rt_sleeps = 2

\* C11: when every invocation raises a retryable exception, the finished
\* retry loop has invoked the function exactly max_attempts times, has slept
\* max_attempts - 1 times (between attempts, not after the last) and has
\* raised the exception of the last invocation instead of returning.
C11_ExhaustionPropagatesLast ==
    (RetryDone /\ \A i \in 1..rt_cfg.max_attempts : Retryable(rt_script[i])) =>
        /\ rt_pc = "raised"
        /\ rt_calls = rt_cfg.max_attempts
        /\ rt_sleeps = rt_cfg.max_attempts - 1
        /\ rt_out = rt_script[rt_cfg.max_attempts]

C11_Witness ==
    /\ rt_kind = "mechanism"
    /\ rt_cfg.max_attempts = 3
    /\ rt_script = <<"ValueError", "ValueError", "TypeError">>
    /\ \A i \in 1..3 : Retryable(rt_script[i])
    /\ rt_pc = "raised"
    /\ rt_out = "TypeError"
    /\ rt_calls = 3
    /\ rt_sleeps = 2

\* the configuration of C12: max_attempts, strategy and base_delay are given,
\* every other field of RetryConfig has its default
FixedDefaults ==
    /\ rt_kind = "mechanism"
    /\ rt_cfg.max_attempts = 3
    /\ rt_cfg.strategy = "fixed"
    /\ rt_cfg.max_delay = DefaultMaxDelay
    /\ rt_cfg.backoff_factor = DefaultBackoffFactor
    /\ rt_cfg.jitter
    /\ rt_cfg.exceptions = {"Exception"}
    /\ rt_cfg.stop_on = {}

\* C12 as stated: with that configuration and a function failing twice and
\* then succeeding, execute returns the value after sleeping at least
\* 2 * base_delay in total, and no computed delay exceeds max_delay.
C12_Original ==
    /\ rt_kind = "mechanism" => rt_delay <= rt_cfg.max_delay
    /\ (FixedDefaults /\ FailsThenSucceeds(2) /\ RetryDone) =>
            /\ rt_pc = "returned"
            /\ rt_out = "ok"
            /\ rt_slept >= 2 * rt_cfg.base_delay

\* C12: with that configuration and a function failing twice and then
\* succeeding, execute returns the value after sleeping at least
\* 2 * min(0.9 * base_delay, max_delay) in total (the default jitter takes up
\* to 10% off each delay and max_delay caps it), and no computed delay exceeds
\* max_delay.
C12_SleepsJitteredDelayTwice ==
    /\ rt_kind = "mechanism" => rt_delay <= rt_cfg.max_delay
    /\ (FixedDefaults /\ FailsThenSucceeds(2) /\ RetryDone) =>
            /\ rt_pc = "returned"
            /\ rt_out = "ok"
            /\ 10 * rt_slept
                 >= 2 * Min(9 * rt_cfg.base_delay, 10 * rt_cfg.max_delay)

C12_Witness ==
    /\ FixedDefaults
    /\ FailsThenSucceeds(2)
    /\ rt_pc = "returned"
    /\ rt_cfg.base_delay = Second
    /\ 10 * rt_slept = 18 * Second

\* C10: an invocation that raises an exception matching stop_on, or matching
\* none of the retryable classes, is the last one: the loop has raised that
\* exception without sleeping after it; when it is the first invocation the
\* function has run exactly once with no sleep at all.
C10_StopPropagatesImmediately ==
    \A i \in 1..rt_calls :
        (rt_script[i] \in Raised /\ ~Retryable(rt_script[i])) =>
            /\ rt_calls = i
            /\ rt_pc = "raised"
            /\ rt_out = rt_script[i]
            /\ rt_sleeps = i - 1

C10_Witness ==
    /\ rt_kind = "mechanism"
    /\ rt_cfg.max_attempts >= 2
    /\ rt_script[1] = "ValueError"
    /\ rt_cfg.stop_on = {"ValueError"}
    /\ rt_cfg.exceptions = {"Exception"}
    /\ rt_pc = "raised"
    /\ rt_calls = 1
    /\ rt_sleeps = 0

-----------------------------------------------------------------------------
(* Properties of FallbackMechanism, checked under SpecFB *)

\* C13: when the primary function fails, execute yields the cached result of
\* an earlier successful call of the same function with the same arguments
\* if there is one; else the result of the fallback function if one is
\* configured and does not raise; else the fallback value if one is
\* configured; else it raises the original exception.
C13_ResolutionOrder ==
    (fb_last.op = "execute" /\ fb_last.outcome # "ok") =>
        fb_last.res =
            IF fb_last.earlier_ok THEN "ok"
            ELSE IF fb_cfg.fallback_func /\ fb_last.fb_outcome = "ok"
            THEN "fallback_result"
            ELSE IF fb_cfg.fallback_value # None THEN fb_cfg.fallback_value
            ELSE fb_last.outcome

-----------------------------------------------------------------------------
(* Properties of the limiters, checked under SpecRL *)

\* the step is an acquire call on the limiter
AcquireStep == rl_log' # rl_log

IsBucket == rl_kind \in {"token_bucket", "rate_limiter"}

\* C14: after every acquire(n) of a TokenBucket, with n >= 1 and a clock
\* that never goes back, the token count is between 0 and max_tokens.
C14_TokensWithinCapacity ==
    rl_kind = "token_bucket" =>
        /\ tb.tokens >= 0
        /\ tb.tokens <= tb.max_tokens * tb.refill_rate[2]

C14_Witness ==
    /\ rl_kind = "token_bucket"
    /\ rl_cfg = [max_requests |-> 2, time_window |-> 1, burst |-> 0]
    /\ rl_log = <<[t |-> 1, n |-> 2, ok |-> TRUE],
                  [t |-> 1, n |-> 1, ok |-> FALSE],
                  [t |-> 3, n |-> 1, ok |-> TRUE]>>
    /\ tb.tokens = 1

\* the capacity C15 gives a fresh bucket
Capacity ==
    IF rl_kind = "token_bucket" THEN rl_cfg.max_requests + rl_cfg.burst
    ELSE IF rl_cfg.burst # 0 THEN rl_cfg.burst
    ELSE rl_cfg.max_requests

\* the first k calls were single-unit acquires at the clock reading of the
\* construction
Immediate(k) == \A i \in 1..k : rl_log[i].t = 1 /\ rl_log[i].n = 1

\* of the immediate single-unit acquires on a fresh bucket exactly the
\* first Capacity are granted
FreshBurst ==
    \A k \in 1..Len(rl_log) : Immediate(k) => (rl_log[k].ok <=> k <= Capacity)

\* a single-unit acquire is granted when a token's worth of time has passed
\* since the call before it
GrantedAfterRefill ==
    \A k \in 1..(Len(rl_log) - 1) :
        (/\ rl_log[k + 1].n = 1
         /\ (rl_log[k + 1].t - rl_log[k].t) * rl_cfg.max_requests
              >= rl_cfg.time_window)
        => rl_log[k + 1].ok

\* C15: acquire(n) on a TokenBucket or RateLimiter succeeds exactly when
\* the tokens after the lazy refill are at least n, takes exactly n tokens
\* on success and none on denial; a fresh bucket of capacity C grants
\* exactly C immediate single-unit acquires and denies the next, and grants
\* again once a token's worth of time has elapsed.
C15_AcquireTakesExactly ==
    [][IsBucket =>
        /\ AcquireStep =>
              LET e == rl_log'[Len(rl_log')]
                  den == tb.refill_rate[2]
                  refilled == Min(tb.max_tokens * den,
                                  tb.tokens + (now - tb.last_refill)
                                                * tb.refill_rate[1])
              IN  /\ e.ok <=> refilled >= e.n * den
                  /\ tb'.tokens = IF e.ok THEN refilled - e.n * den
                                  ELSE refilled
        /\ FreshBurst'
        /\ GrantedAfterRefill']_vars

C15_Witness ==
    /\ rl_kind = "rate_limiter"
    /\ rl_cfg = [max_requests |-> 1, time_window |-> 2, burst |-> 0]
    /\ rl_log = <<[t |-> 1, n |-> 1, ok |-> TRUE],
                  [t |-> 1, n |-> 1, ok |-> FALSE],
                  [t |-> 3, n |-> 1, ok |-> TRUE]>>

\* timestamps of requests that lie within the window trailing clock reading t
InWindow(requests, t) ==
    SelectSeq(requests, LAMBDA x : x >= t - sw.window_size)

\* C17: a SlidingWindowLimiter never holds more than max_requests
\* timestamps within the trailing window; acquire drops the timestamps
\* older than the window, succeeds exactly when fewer than max_requests
\* remain, and only then records the current time.
C17_WindowNeverOverfull ==
    [][rl_kind = "sliding_window" =>
        /\ AcquireStep =>
              LET e == rl_log'[Len(rl_log')]
                  kept == InWindow(sw.requests, now)
              IN  /\ e.ok <=> Len(kept) < sw.max_requests
                  /\ sw'.requests = IF e.ok THEN Append(kept, now) ELSE kept
        /\ Len(InWindow(sw'.requests, now')) <= sw.max_requests]_vars

C17_Witness ==
    /\ rl_kind = "sliding_window"
    /\ rl_cfg = [max_requests |-> 1, time_window |-> 1, burst |-> 0]
    /\ rl_log = <<[t |-> 1, n |-> 1, ok |-> TRUE],
                  [t |-> 2, n |-> 1, ok |-> FALSE],
                  [t |-> 3, n |-> 1, ok |-> TRUE]>>
    /\ sw.requests = <<3>>

\* C18: acquire(n), n >= 1, on a LeakyBucket succeeds exactly when the level
\* after leaking plus n is at most the capacity and then raises the level by
\* exactly n; a denied acquire adds nothing; the level is between 0 and the
\* capacity after every call.
C18_LevelWithinCapacity ==
    [][rl_kind = "leaky_bucket" =>
        /\ AcquireStep =>
              LET e == rl_log'[Len(rl_log')]
                  den == lb.leak_rate[2]
                  leaked == Max(0, lb.level
                                     - (now - lb.last_leak) * lb.leak_rate[1])
              IN  /\ e.ok <=> leaked + e.n * den <= lb.capacity * den
                  /\ lb'.level = IF e.ok THEN leaked + e.n * den ELSE leaked
        /\ lb'.level >= 0
        /\ lb'.level <= lb.capacity * lb.leak_rate[2]]_vars

C18_Witness ==
    /\ rl_kind = "leaky_bucket"
    /\ rl_cfg = [max_requests |-> 1, time_window |-> 1, burst |-> 0]
    /\ rl_log = <<[t |-> 1, n |-> 1, ok |-> TRUE],
                  [t |-> 1, n |-> 1, ok |-> FALSE],
                  [t |-> 2, n |-> 1, ok |-> TRUE]>>
    /\ lb.level = 1

\* the first whole number of ticks beyond the fraction w of ticks
Beyond(w) == (w[1] \div w[2]) + 1

\* C19: wait_time of a token bucket, a leaky bucket and a sliding window is
\* never negative, is 0 whenever an acquire at the same clock reading would
\* succeed, and otherwise is positive and an acquire made later than that
\* time succeeds.
C19_WaitTimeMatchesAcquire ==
    /\ rl_kind = "token_bucket" =>
         \A n \in Amounts :
            LET w == TBWaitTime(tb, n)
            IN  /\ w[1] >= 0
                /\ TBAcquire(tb, n, now).ok => w[1] = 0
                /\ (~TBAcquire(tb, n, now).ok /\ n <= tb.max_tokens) =>
                      /\ w[1] > 0
                      /\ TBAcquire(tb, n, now + Beyond(w)).ok
    /\ rl_kind = "leaky_bucket" =>
         \A n \in Amounts :
            LET w == LBWaitTime(lb, n)
            IN  /\ w[1] >= 0
                /\ LBAcquire(lb, n, now).ok => w[1] = 0
                /\ (~LBAcquire(lb, n, now).ok /\ n <= lb.capacity) =>
                      /\ w[1] > 0
                      /\ LBAcquire(lb, n, now + Beyond(w)).ok
    /\ rl_kind = "sliding_window" =>
         LET w == SWWaitTime(sw, now)
         IN  /\ w >= 0
             /\ SWAcquire(sw, now).ok => w = 0
             /\ ~SWAcquire(sw, now).ok =>
                   /\ w > 0
                   /\ SWAcquire(sw, now + w + 1).ok

-----------------------------------------------------------------------------
(* Properties of concurrent TokenBucket.acquire, checked under SpecTC *)

\* threads between taking and releasing the lock
InAcquire == {th \in Threads : tc_pc[th] \notin {"idle", "lock"}}

\* C16: when several threads call acquire on one TokenBucket, refill, check
\* and decrement of one call run without another call in between, the units
\* granted never exceed the initial capacity plus the tokens refilled over
\* the elapsed time, and the token count is never negative.
C16_ConcurrentAcquireAtomic ==
    /\ Cardinality(InAcquire) <= 1
    /\ tc_granted * tc.refill_rate[2]
         <= tc.max_tokens * tc.refill_rate[2] + (now - 1) * tc.refill_rate[1]
    /\ tc.tokens >= 0

C16_Witness ==
    /\ tc.max_tokens = 1
    /\ tc_granted = 1
    /\ tc_pc["t1"] = "unlock"
    /\ tc_loc["t1"].n = 1
    /\ tc_pc["t2"] = "lock"
    /\ tc_loc["t2"].n = 1
    /\ tc.tokens = 0
    /\ now = 1

-----------------------------------------------------------------------------
(* Properties of AdaptiveRateLimiter, checked under SpecAD *)

\* C20: with base B = max_requests, current_limit stays within
\* [0.1 * B, 2 * B].
C20_LimitWithinBand ==
    /\ 10 * ad.current_limit >= ad_cfg.max_requests
    /\ ad.current_limit <= 2 * ad_cfg.max_requests

\* C21: every adjustment taken after an interval whose reported success
\* rate is above 90% raises current_limit when it is below twice the base
\* (so that sustained success brings it to the cap), for every base >= 1.
C21_HighSuccessRaisesLimit ==
    [][(/\ ad'.last_adjustment # ad.last_adjustment
        /\ 10 * ad.success_count > 9 * (ad.success_count + ad.failure_count)
        /\ ad.current_limit < 2 * ad_cfg.max_requests)
       => ad'.current_limit > ad.current_limit]_vars

-----------------------------------------------------------------------------
(* Properties of the AdvancedRateLimiter registry, checked under SpecRG *)

\* a step that is one direct call of check_limits
CheckLimitsStep ==
    rg_pc' = "idle" /\ rg_n' = rg_n + 1 /\ rg_last'.op = "check_limits"

\* C22: check_limits is all-or-nothing: it returns True only if the named
\* limiter and every global limiter grant, and a call that returns False
\* consumes capacity from no limiter: every limiter registered before the
\* call holds at least the tokens it held.
C22_CheckLimitsAllOrNothing ==
    [][CheckLimitsStep =>
         IF rg_last'.ok
         THEN /\ \A k \in DOMAIN rg.limiters \cap {LimiterKey("default", "api")} :
                    TBAcquire(rg.limiters[k], 1, now).ok
              /\ \A k \in DOMAIN rg.global_limiters :
                    TBAcquire(rg.global_limiters[k], 1, now).ok
         ELSE /\ \A k \in DOMAIN rg.limiters :
                    rg'.limiters[k].tokens >= rg.limiters[k].tokens
              /\ \A k \in DOMAIN rg.global_limiters :
                    rg'.global_limiters[k].tokens
                        >= rg.global_limiters[k].tokens]_vars

\* C23: a finished acquire_with_backoff has called check_limits at most
\* max_attempts times, exactly max_attempts times when it returns False;
\* each sleep is the one before it times backoff_factor, capped at
\* max_backoff; and a run of denials that starts with no stored backoff, or
\* with the zero stored by a success, first sleeps the initial backoff.
C23_BackoffGrowsAndResets ==
    rg_last.op = "acquire_with_backoff" =>
        LET c == rg_last.call
        IN  /\ c.checks <= c.max_attempts
            /\ ~rg_last.res => c.checks = c.max_attempts
            /\ \A i \in 1..(Len(c.sleeps) - 1) :
                  DefaultLimiterBackoffFactor[2] * c.sleeps[i + 1]
                      = Min(DefaultLimiterBackoffFactor[1] * c.sleeps[i],
                            DefaultLimiterBackoffFactor[2] * DefaultMaxBackoff)
            /\ (Len(c.sleeps) >= 1 /\ c.stored \in {NoTime, 0})
                  => c.sleeps[1] = InitialBackoff

\* C24: a decorated call that check_limits denies raises RateLimitExceeded
\* whose retry_after is the registry's wait_time and does not invoke the
\* wrapped function, whatever the decorator's configuration.
C24_DenialRaisesRateLimitExceeded ==
    (rg_last.op = "decorated" /\ ~rg_last.ok) =>
        /\ rg_last.res = "RateLimitExceeded"
        /\ rg_last.retry_after = rg_last.wait_time
        /\ ~rg_last.invoked

-----------------------------------------------------------------------------
(* Properties of the blocking acquires, checked under SpecBLFair *)

\* C25: no acquire blocks for ever: a call with blocking=False returns
\* without having slept, and every call that has started returns, whatever
\* the requested tokens and the timeout.
C25_AcquireReturns ==
    /\ [](bl_last.op = "acquire" /\ ~bl_last.call.blocking
            => bl_last.call.sleeps = 0)
    /\ (bl_pc # "idle") ~> (bl_pc = "idle")

-----------------------------------------------------------------------------
(* Properties of the caches, checked under SpecMC *)

\* a step that is one operation op
CacheStep(op) == mc_last'.n # mc_last.n /\ mc_last'.op = op

Bare == mc_cfg.kind = "MemoryCacheBackend"

StoredKeys == KeySet(mc.l1.store)

\* C26: on a MemoryCacheBackend in any state set(k, v) returns True and
\* leaves k in the store, so the eviction it triggers never removes k; a
\* set of a key already stored evicts nothing; and a get(k) that follows
\* the set at once returns v.
C26_SetThenGetReturnsValue ==
    [][/\ (Bare /\ CacheStep("set")) =>
            /\ mc_last'.res
            /\ mc_last'.key \in StoredKeys'
            /\ mc_last'.key \in StoredKeys => StoredKeys' = StoredKeys
       /\ (/\ Bare /\ CacheStep("get")
           /\ mc_last.op = "set" /\ mc_last.key = mc_last'.key
           /\ mc_last.t = now) =>
            mc_last'.value = mc_last.value]_vars

C26_Witness ==
    /\ Bare /\ mc_last.op = "get" /\ mc_last.held /\ mc_last.res
    /\ mc_last.value = 3
    /\ Len(mc.l1.store) = mc.l1.config.max_size

\* the entry a get step finds under its key before it acts
Found == DictGet(mc.l1.store, mc_last'.key)

Aged == Found.ttl # NoTime /\ now - Found.created_at > Found.ttl

\* C27: get(k) on an entry older than its ttl returns absent and removes k
\* from the store, the access order and the frequency counter when
\* lazy_expiration is on, and returns the stored value and keeps the entry
\* when it is off; an entry not older than its ttl is always returned.
C27_LazyExpiration ==
    [][(Bare /\ CacheStep("get") /\ mc_last'.key \in StoredKeys) =>
         IF Aged /\ mc_cfg.config.lazy_expiration
         THEN /\ mc_last'.value = Absent
              /\ mc_last'.key \notin StoredKeys'
              /\ mc_last'.key \notin KeySet(mc'.l1.access_order)
              /\ mc_last'.key \notin KeySet(mc'.l1.frequency_counter)
         ELSE /\ mc_last'.value = Found.value
              /\ mc_last'.key \in StoredKeys']_vars

C27_Witness ==
    /\ Bare /\ mc_last.op = "get" /\ mc_last.held
    /\ mc_last.value = Absent
    /\ mc_last.key \notin StoredKeys

\* a set step that inserts a new key into a full memory backend
FullInsert ==
    /\ Bare /\ CacheStep("set")
    /\ mc_last'.key \notin StoredKeys
    /\ Len(mc.l1.store) >= mc_cfg.config.max_size

\* C28: on a full LRU backend the set of a new key evicts exactly one
\* entry, the key whose last touch (set or get hit) is the oldest, after any
\* sequence of set, get, delete and clear.
C28_LruEvictsOldestTouched ==
    [][(FullInsert /\ mc_cfg.config.strategy = "lru") =>
         StoredKeys' = (StoredKeys \ {Head(mc_hist.order)})
                          \cup {mc_last'.key}]_vars

C28_Witness ==
    /\ Bare /\ mc_cfg.config.strategy = "lru" /\ mc_cfg.config.max_size = 2
    /\ mc_last.op = "set" /\ mc_last.key = "c" /\ ~mc_last.held
    /\ mc_last.n = 4
    /\ StoredKeys = {"a", "c"}
    /\ DictGet(mc.l1.store, "a").access_count = 1

\* C29: on a full LFU backend the set of a new key evicts exactly one
\* stored key, one whose count of sets and get hits since it was inserted
\* is the least: no key touched more often than another stored key goes.
C29_LfuEvictsLeastFrequent ==
    [][(FullInsert /\ mc_cfg.config.strategy = "lfu") =>
         \E e \in StoredKeys :
            /\ StoredKeys' = (StoredKeys \ {e}) \cup {mc_last'.key}
            /\ \A k \in StoredKeys :
                  mc_hist.count[e] <= mc_hist.count[k]]_vars

C29_Witness ==
    /\ Bare /\ mc_cfg.config.strategy = "lfu" /\ mc_cfg.config.max_size = 2
    /\ mc_last.op = "set" /\ mc_last.key = "c" /\ ~mc_last.held
    /\ mc_last.n = 4
    /\ StoredKeys = {"a", "c"}
    /\ mc_hist.count["a"] = 2

C35_SizeWithinMaxSize ==
    (Bare /\ mc_cfg.config.max_size >= 1) =>
        MemSize(mc.l1) <= mc_cfg.config.max_size

-----------------------------------------------------------------------------
(* Properties of MultiLevelCache, checked under SpecML *)

\* the value L1 and L2 hold for a key
L1Value(k) == DictGet(mc.l1.store, k).value

L2Value(k) == DictGet(mc.l2, GetFilePath(k)).value

\* what get(k) does by the level that answers it: an L1 hit returns the L1
\* value and leaves L2 alone, an L2 hit returns the L2 value and leaves a
\* live copy of it in L1
GetByLevel(k) ==
    /\ Level(mc, k, now) = "l1" =>
          mc_last'.value = L1Value(k) /\ mc'.l2 = mc.l2
    /\ Level(mc, k, now) = "l2" =>
          /\ mc_last'.value = L2Value(k)
          /\ L1Live(mc', k, now)
          /\ DictGet(mc'.l1.store, k).value = L2Value(k)

\* this get follows, with no operation in between, a get of the same key
\* that L2 answered
AfterPromotion(k) ==
    mc_last.op = "get" /\ mc_last.key = k /\ mc_last.level = "l2"

\* C31 as stated: the get after a promotion is an L1 hit whenever it
\* comes, and a miss in both levels changes neither level.
C31_Original ==
    [][CacheStep("get") =>
         LET k == mc_last'.key
         IN  /\ GetByLevel(k)
             /\ AfterPromotion(k) => Level(mc, k, now) = "l1"
             /\ Level(mc, k, now) = "miss" =>
                   /\ mc_last'.value = Absent
                   /\ mc'.l1 = mc.l1 /\ mc'.l2 = mc.l2]_vars

\* C31: MultiLevelCache.get returns the L1 value on an L1 hit and leaves L2
\* alone; on an L1 miss and L2 hit it returns the L2 value and copies it
\* into L1, so that the next get of the key, with no operation in between
\* and no more than L1's default_ttl after the promotion, is an L1 hit; on a
\* miss in both levels it returns absent and changes neither level beyond
\* removing the expired entry of the key.
C31_GetPromotes ==
    [][CacheStep("get") =>
         LET k == mc_last'.key
         IN  /\ GetByLevel(k)
             /\ (/\ AfterPromotion(k)
                 /\ now - mc_last.t <= mc.l1.config.default_ttl) =>
                   /\ Level(mc, k, now) = "l1"
                   /\ mc_last'.value = mc_last.value
             /\ Level(mc, k, now) = "miss" =>
                   /\ mc_last'.value = Absent
                   /\ mc'.l1.store = DictDel(mc.l1.store, k)
                   /\ mc'.l2 = DictDel(mc.l2, GetFilePath(k))]_vars

\* an L1 hit on the copy a promotion left there
C31_Witness ==
    /\ mc_last.op = "get" /\ mc_last.level = "l1" /\ mc_last.res
    /\ mc_hist[mc_last.key].promoted
    /\ mc_last.n >= 4

\* the last set of key k carried a ttl and more than that has elapsed
Outlived(k) ==
    mc_hist[k].ttl # NoTime /\ now - mc_hist[k].t > mc_hist[k].ttl

\* C36: a get(k) made more than t after the last MultiLevelCache.set(k, v,
\* ttl=t) returns absent, whether or not the value was promoted from L2 to
\* L1 in between.
C36_NothingReturnedAfterTtl ==
    [][(CacheStep("get") /\ Outlived(mc_last'.key)) =>
         mc_last'.value = Absent]_vars

-----------------------------------------------------------------------------
(* Properties of concurrent MultiLevelCache.get calls, checked under SpecMT *)

\* no thread is inside get
Quiet == \A th \in Threads : mt_pc[th] = "idle"

\* C37: whenever no get is running, l1_hits + l1_misses is the number of
\* get calls completed, l2_hits + l2_misses is l1_misses, and promotions is
\* l2_hits, also when the calls ran concurrently on several threads.
C37_CountersAddUp ==
    Quiet =>
        /\ mc.stats.l1_hits + mc.stats.l1_misses
              = mt_done["t1"] + mt_done["t2"]
        /\ mc.stats.l2_hits + mc.stats.l2_misses = mc.stats.l1_misses
        /\ mc.stats.promotions = mc.stats.l2_hits

-----------------------------------------------------------------------------
(* Properties of the AdvancedCache patterns, checked under SpecFC *)

-----------------------------------------------------------------------------
(* Properties of write_behind, checked under SpecWB and SpecWBFair *)

\* the writer calls thread i has made
WritesOf(i) == SelectSeq(fc_writes, LAMBDA w : w.thread = i)

AllWritten == \A i \in 1..Len(fc_threads) : Len(WritesOf(i)) = 1

\* C38: once the deferred writers of two write_behind calls for one key
\* have run, the value the writer got last is the value of the later call,
\* whatever the two delays.
C38_LastDeliveredIsLatest ==
    (Len(fc_threads) = 2 /\ AllWritten) =>
        Last(fc_writes).value = fc_threads[2].value

-----------------------------------------------------------------------------
(* Properties of memoize, checked under SpecFC *)

\* C34: a call of the memoized function whose cache key holds a live entry
\* returns the cached result and does not invoke the function, whatever the
\* result cached, None included.
C34_MemoizedInvokedOnce ==
    [][(CacheStep("memoized") /\ Level(mc, mc_last'.key, now) # "miss") =>
         /\ ~mc_last'.invoked
         /\ mc_hist' = mc_hist
         /\ mc_last'.value
              = IF L1Live(mc, mc_last'.key, now) THEN L1Value(mc_last'.key)
                ELSE L2Value(mc_last'.key)]_vars

-----------------------------------------------------------------------------
(* Properties of the global accessors, checked under SpecGS *)

\* C40: all calls of get_global_rate_limiter return one instance, and all
\* calls of get_global_cache return one instance, also when the first calls
\* run concurrently on several threads; what is registered on the instance
\* one call returned is then on the instance every other call returned.
C40_OneInstancePerAccessor ==
    \A i, j \in 1..Len(gs_ret) :
        gs_ret[i].accessor = gs_ret[j].accessor =>
            gs_ret[i].instance = gs_ret[j].instance

-----------------------------------------------------------------------------
(* Properties of ErrorRecovery, checked under SpecER *)

\* C7: between execute calls, every execute counted in total_calls is
\* counted in exactly one of successful_calls and failed_calls, and an
\* execute rescued by the fallback is counted as a success only.
C7_StatsPartitionCalls ==
    er_pc = "idle" =>
        /\ er_stats.successful_calls + er_stats.failed_calls
             = er_stats.total_calls
        /\ er_stats.fallbacks_used <= er_stats.successful_calls

\* a step of execute in which the wrapped function ran
InvokeStep == er_pc \in {"attempt", "fallback"} /\ er_pc' # er_pc
              /\ er_inv' # "-"

\* C8: with breaker, retry and fallback configured, every invocation of the
\* wrapped function goes through the circuit breaker, and none happens while
\* the breaker is OPEN and recovery_timeout has not elapsed since the last
\* failure.
C8_InvokedOnlyThroughBreaker ==
    [][(InvokeStep /\ er_cfg.breaker /\ er_cfg.has_retry
                   /\ er_cfg.has_fallback) =>
         /\ er_inv' = "breaker"
         /\ ~(/\ cb.state = "open"
              /\ now - cb.last_failure_time < cb_cfg.recovery_timeout)]_vars

\* the step that ends an execute in which every attempt raised: the
\* fallback mechanism has run
FallbackStep == er_pc = "fallback" /\ er_pc' = "idle"

\* C39: with a fallback that caches (cache_fallback on), once an execute
\* has returned the function's own result, a later execute of the same call
\* in which the function raises at every invocation returns that result and
\* does not raise.
C39_FallbackReturnsEarlierResult ==
    [][(/\ FallbackStep
        /\ er_cfg.has_fallback /\ er_cfg.fallback.cache_fallback
        /\ er_out = "ok") =>
         er_out' = "ok"]_vars

====
